---- MODULE Spec2Model ----
(***************************************************************************)
(* CCRouter: Anthropic <-> OpenAI (OpenRouter) protocol gateway.           *)
(*                                                                         *)
(* Three parts of the program are modelled, each with its own              *)
(* specification over the shared variables:                                *)
(*   SpecRequest  formatAnthropicToOpenAI with validateOpenAIToolCalls     *)
(*   SpecStream   streamOpenAIToAnthropic (the SSE re-framer)              *)
(*   SpecBilling  computeUsageMetrics and calculateStreamUsage             *)
(***************************************************************************)
EXTENDS Integers, Sequences, FiniteSets, TLC

VARIABLES
    strPhase,     \* "idle" | "reading" | "finishing" | "closed" | "errored": where
                  \* start(controller) is ("errored": its promise was rejected)
    upstream,     \* the bytes of the upstream body
    upPos,        \* how many of them the reader has returned
    sawPartialLine, \* whether a read has left an incomplete line in the buffer
    outRead,      \* how many of the events enqueued the consumer has read
    readerLocked, \* whether the translator holds the lock of the upstream reader
    stream,       \* the variables of start(controller) and the events enqueued
    now,          \* Date.now(), in half hours
    pricingCache, \* the module variable pricingCache: Null or <<[data, timestamp]>>
    fetchLog,     \* the outcomes of the fetches of the catalog made so far
    billPhase,    \* "idle" | "called" | "done": where computeUsageMetrics is
    billIn,       \* the options of computeUsageMetrics: [usage, ttlMode]
    billOut,      \* Null or <<the BillingComputationResult>>
    lookups,      \* the calls of resolvePricing in flight or returned, by caller
    reqPhase,   \* "idle" | "building" | "done" | "sent" | "answered": where the
                \* request translator and the dispatcher are
    reqBody,    \* the inbound Anthropic body: [messages, system, claude]
    reqFlat,    \* the flattened OpenAI messages handed to validateOpenAIToolCalls
    reqOut,     \* data.messages of the translated request
    reqMeta,    \* Null or <<the cacheMetadata attached to the translated request>>
    reqResponse,  \* Null or <<the Response the dispatcher returns>>
    upstreamSent, \* the bodies posted to the upstream /chat/completions
    resp          \* the upstream's completion and what formatOpenAIToAnthropic
                  \* made of it: [completion, result]

reqVars == <<reqPhase, reqBody, reqFlat, reqOut, reqMeta, reqResponse, upstreamSent, resp>>

billVars == <<billPhase, billIn, billOut, lookups>>

strVars == <<strPhase, upstream, upPos, sawPartialLine, outRead, readerLocked, stream>>

vars == <<now, pricingCache, fetchLog, billVars, reqVars, strVars>>

(***************************************************************************)
(* Bounds of the model.                                                    *)
(***************************************************************************)
MaxMsgs == 3      \* messages in one inbound request
MaxBlocks == 3    \* content blocks in one inbound request, all messages together
MaxTok == 2       \* largest prompt_tokens of an upstream usage object
MaxCostSteps == 5 \* upstream cost goes up to MaxCostSteps steps of 1.5e-6 $
MaxFrames == 3    \* SSE frames in one upstream body
MaxInbound == 2   \* messages of a body posted to the dispatcher
MaxParts == 2     \* content parts of such a body
MaxLookups == 3   \* concurrent callers of resolvePricing
MaxOpenAI == 4    \* messages in a list handed to validateOpenAIToolCalls
MaxDetails == 2   \* entries of reasoning_details in one completion
MaxCalls == 2     \* tool calls in one completion
MaxNow == 3       \* the clock runs up to MaxNow half hours

ToolIds == {"a", "b"}
NoId == "-"

Last(s) == s[Len(s)]

RECURSIVE Concat(_)
Concat(ss) == IF ss = <<>> THEN <<>> ELSE Head(ss) \o Concat(Tail(ss))

(***************************************************************************)
(* Optional values: Null (undefined, null, NaN) is <<>>, a value x is <<x>>.*)
(***************************************************************************)
Null == <<>>
Undefined == <<>>
Num(n) == <<n>>
IsFinite(v) == Len(v) = 1
Val(v) == v[1]

Max(a, b) == IF a > b THEN a ELSE b

\* Math.round(a / b) for b > 0: the nearest integer, halves upward
RoundDiv(a, b) == (2 * a + b) \div (2 * b)

(***************************************************************************)
(* Pricing rate cache (pricingUtils).  Money is counted in units of        *)
(* 5e-8 $: 1e-6 $ is 20 units, and a rate of 1e-6 $ per token is 20.       *)
(* Rates are multiples of 20, which keeps rate * multiplier exact.         *)
(* A catalog entry is [prompt, completion, input_cache_read,               *)
(* input_cache_write], the two cache rates optional; the table holds the   *)
(* entry of the one model in play, or Null when the model is not listed.   *)
(***************************************************************************)
CACHE_DURATION == 2

getCachedModelPricing(cache, t) ==
    IF cache # Null /\ (t - cache[1].timestamp) < CACHE_DURATION
    THEN cache[1].data
    ELSE Null

\* getModelPricing with the outcome of its fetch: [pricing, cache]
getModelPricing(cache, t, fetched) ==
    IF cache # Null /\ (t - cache[1].timestamp) < CACHE_DURATION
    THEN [pricing |-> cache[1].data, cache |-> cache]
    ELSE IF fetched.ok
    THEN [pricing |-> fetched.data,
          cache |-> <<[data |-> fetched.data, timestamp |-> t]>>]
    ELSE [pricing |-> IF cache # Null THEN cache[1].data ELSE Null, cache |-> cache]

getPricingCacheTimestamp(cache) ==
    IF cache # Null THEN Num(cache[1].timestamp) ELSE Null

\* parseFloat(rate || '0') of an optional catalog rate
PriceOr0(rate) == IF rate = Undefined THEN 0 ELSE Val(rate)

calculateCacheCreationTokens(actualCost, totalInputTokens, outputTokens, cacheReadTokens, pricing) ==
    LET promptPrice == Val(pricing.prompt)
        completionPrice == Val(pricing.completion)
        cacheReadPrice == PriceOr0(pricing.input_cache_read)
        cacheWritePrice == PriceOr0(pricing.input_cache_write)
        baseCost == (totalInputTokens * promptPrice) + (outputTokens * completionPrice)
        cacheReadAdjustment == cacheReadTokens * (cacheReadPrice - promptPrice)
        remainingCostDifference == actualCost - baseCost - cacheReadAdjustment
        cacheWriteAdjustment == cacheWritePrice - promptPrice
    IN  IF promptPrice <= 0 \/ completionPrice <= 0 \/ cacheWritePrice <= 0 THEN 0
        ELSE IF cacheWriteAdjustment > 0
        THEN Max(0, RoundDiv(remainingCostDifference, cacheWriteAdjustment))
        ELSE 0

\* calculateStreamUsage with the outcome of the fetch it may make: [usage, cache]
calculateStreamUsage(totalInputTokens, totalOutputTokens, totalCacheReadTokens, actualCost, totalReasoningTokens, cache, t, fetched) ==
    LET priced == actualCost # Null /\ Val(actualCost) > 0
        cached == getCachedModelPricing(cache, t)
        got == IF priced /\ cached = Null THEN getModelPricing(cache, t, fetched)
               ELSE [pricing |-> cached, cache |-> cache]
        cacheCreationTokens ==
            IF priced /\ got.pricing # Null
            THEN calculateCacheCreationTokens(Val(actualCost), totalInputTokens,
                     totalOutputTokens + totalReasoningTokens, totalCacheReadTokens,
                     got.pricing[1])
            ELSE 0
    IN  [usage |-> [input_tokens |-> totalInputTokens - totalCacheReadTokens,
                    output_tokens |-> totalOutputTokens,
                    reasoning_tokens |-> totalReasoningTokens,
                    cache_creation_input_tokens |-> cacheCreationTokens,
                    cache_read_input_tokens |-> totalCacheReadTokens],
         cache |-> got.cache]


(***************************************************************************)
(* Usage/billing inference engine (usageUtils).                            *)
(***************************************************************************)
PRECISION == 20
\* the multipliers, in twentieths
CACHE_READ_MULTIPLIER == 2
CACHE_WRITE_MULTIPLIER_5M == 25
CACHE_WRITE_MULTIPLIER_1H == 40

Times(rate, multiplier) == (rate * multiplier) \div 20

roundCurrency(value) ==
    IF ~IsFinite(value) THEN 0
    ELSE RoundDiv(Val(value), PRECISION) * PRECISION

safeNumber(value) == IF IsFinite(value) THEN Val(value) ELSE 0

normaliseTokens(value) ==
    IF value = Undefined THEN 0
    ELSE IF ~IsFinite(value) THEN 0
    ELSE IF Val(value) < 0 THEN 0 ELSE Val(value)

determinePricingSource(pricing, fetchedViaNetwork) ==
    IF pricing = Null THEN "missing"
    ELSE IF fetchedViaNetwork THEN "network" ELSE "cache"

\* mutant: a mixed request is priced at the 1h tier
deriveWriteRateMixedAs1h(ttlMode, promptRate) ==
    IF promptRate <= 0 THEN 0
    ELSE IF ttlMode = "ephemeral_1h" \/ ttlMode = "mixed"
    THEN Times(promptRate, CACHE_WRITE_MULTIPLIER_1H)
    ELSE Times(promptRate, CACHE_WRITE_MULTIPLIER_5M)

\* mutant: the 5m multiplier for every TTL mode
deriveWriteRateAlways5m(ttlMode, promptRate) ==
    IF promptRate <= 0 THEN 0 ELSE Times(promptRate, CACHE_WRITE_MULTIPLIER_5M)

deriveWriteRate(ttlMode, promptRate) ==
    IF promptRate <= 0 THEN 0
    ELSE IF ttlMode = "ephemeral_1h" THEN Times(promptRate, CACHE_WRITE_MULTIPLIER_1H)
    ELSE IF ttlMode = "mixed" THEN Times(promptRate, CACHE_WRITE_MULTIPLIER_5M)
    ELSE Times(promptRate, CACHE_WRITE_MULTIPLIER_5M)

Breakdown(five, one) ==
    <<[ephemeral_5m_input_tokens |-> five, ephemeral_1h_input_tokens |-> one]>>

\* mutant: the upstream legs are not republished, the total is attributed
\* to the tier of the TTL mode
buildCacheCreationBreakdownByTtl(source, ttlMode, writeTokens, upstreamBreakdown) ==
    IF source = "upstream_simple" \/ source = "unavailable"
    THEN [breakdown |-> Null, allowField |-> FALSE]
    ELSE IF ttlMode = "mixed"
    THEN [breakdown |-> Null, allowField |-> FALSE]
    ELSE IF ttlMode = "ephemeral_1h"
    THEN [breakdown |-> Breakdown(0, writeTokens), allowField |-> TRUE]
    ELSE [breakdown |-> Breakdown(writeTokens, 0), allowField |-> TRUE]

buildCacheCreationBreakdown(source, ttlMode, writeTokens, upstreamBreakdown) ==
    IF source = "upstream_detailed"
    THEN [breakdown |-> Breakdown(
              normaliseTokens(IF upstreamBreakdown = Null THEN Undefined
                              ELSE upstreamBreakdown[1].ephemeral_5m_input_tokens),
              normaliseTokens(IF upstreamBreakdown = Null THEN Undefined
                              ELSE upstreamBreakdown[1].ephemeral_1h_input_tokens)),
          allowField |-> TRUE]
    ELSE IF source = "upstream_simple" \/ source = "unavailable"
    THEN [breakdown |-> Null, allowField |-> FALSE]
    ELSE IF ttlMode = "mixed"
    THEN [breakdown |-> Null, allowField |-> FALSE]
    ELSE IF ttlMode = "ephemeral_1h"
    THEN [breakdown |-> Breakdown(0, writeTokens), allowField |-> TRUE]
    ELSE [breakdown |-> Breakdown(writeTokens, 0), allowField |-> TRUE]

\* resolvePricing with the outcome of the fetch it may make
resolvePricing(cache, t, fetched) ==
    LET cached == getCachedModelPricing(cache, t)
        got == IF cached = Null THEN getModelPricing(cache, t, fetched)
               ELSE [pricing |-> cached, cache |-> cache]
        pricing == got.pricing
        fetchedViaNetwork == cached = Null /\ pricing # Null
        promptRate == IF pricing # Null THEN safeNumber(pricing[1].prompt) ELSE 0
        completionRate == IF pricing # Null THEN safeNumber(pricing[1].completion) ELSE 0
    IN  [pricing |-> pricing,
         cache |-> got.cache,
         pricingSource |-> determinePricingSource(pricing, fetchedViaNetwork),
         promptRate |-> promptRate,
         completionRate |-> completionRate,
         readRate |-> IF promptRate > 0 THEN Times(promptRate, CACHE_READ_MULTIPLIER) ELSE 0,
         writeRate5m |-> IF promptRate > 0 THEN Times(promptRate, CACHE_WRITE_MULTIPLIER_5M) ELSE 0,
         writeRate1h |-> IF promptRate > 0 THEN Times(promptRate, CACHE_WRITE_MULTIPLIER_1H) ELSE 0]

\* mutant: no upper clamp
clampWriteTokensFromBelow(writeTokens, promptTokens) ==
    IF writeTokens < 0 THEN 0 ELSE writeTokens

clampWriteTokens(writeTokens, promptTokens) ==
    IF writeTokens < 0 THEN 0
    ELSE IF writeTokens > promptTokens THEN promptTokens
    ELSE writeTokens

\* mutant: a negative residual is clamped without a note
WriteEstimateSilentClamp(usage, ttlMode, res, promptTokens, actualCostRaw, costInputRaw, costOutputRaw, costReadRaw) ==
    LET upstreamBreakdown == usage.cache_creation
        base == [writeTokens |-> 0, costWriteRaw |-> 0, source |-> "unavailable",
                 notes |-> <<>>, inferenceNeeded |-> FALSE, inferencePerformed |-> FALSE,
                 writeRateUsed |-> Null, residualBeforeClamp |-> Null,
                 residualAfterClamp |-> Null]
    IN  IF upstreamBreakdown # Null
           /\ (upstreamBreakdown[1].ephemeral_5m_input_tokens # Undefined
               \/ upstreamBreakdown[1].ephemeral_1h_input_tokens # Undefined)
        THEN LET five == normaliseTokens(upstreamBreakdown[1].ephemeral_5m_input_tokens)
                 one == normaliseTokens(upstreamBreakdown[1].ephemeral_1h_input_tokens)
             IN  [base EXCEPT !.writeTokens = Max(0, five + one),
                              !.source = "upstream_detailed",
                              !.costWriteRaw =
                                  (IF res.writeRate5m > 0 THEN five * res.writeRate5m ELSE 0)
                                  + (IF res.writeRate1h > 0 THEN one * res.writeRate1h ELSE 0)]
        ELSE IF usage.cache_creation_input_tokens # Undefined
        THEN LET writeTokens == clampWriteTokens(
                     normaliseTokens(usage.cache_creation_input_tokens), promptTokens)
                 rate == IF ttlMode = "ephemeral_1h" THEN res.writeRate1h ELSE res.writeRate5m
             IN  [base EXCEPT !.writeTokens = writeTokens,
                              !.source = "upstream_simple",
                              !.writeRateUsed = IF rate > 0 THEN Num(rate) ELSE Null,
                              !.costWriteRaw = IF rate > 0 THEN rate * writeTokens ELSE 0]
        ELSE IF actualCostRaw # Null /\ IsFinite(costInputRaw) /\ IsFinite(costOutputRaw)
                /\ IsFinite(costReadRaw)
        THEN LET knownCost == Val(costInputRaw) + Val(costOutputRaw) + Val(costReadRaw)
                 residualBeforeClamp == Val(actualCostRaw) - knownCost
                 residualAfterClamp == IF residualBeforeClamp > 0 THEN residualBeforeClamp ELSE 0
                 note1 == <<>>
                 rate == deriveWriteRate(ttlMode, res.promptRate)
                 inferred == [base EXCEPT !.inferenceNeeded = TRUE,
                                          !.residualBeforeClamp = Num(residualBeforeClamp),
                                          !.residualAfterClamp = Num(residualAfterClamp)]
             IN  IF rate > 0
                 THEN LET roundedWrites == RoundDiv(residualAfterClamp, rate)
                          clampedWrites == clampWriteTokens(roundedWrites, promptTokens)
                          writeTokens == Max(0, clampedWrites)
                      IN  [inferred EXCEPT
                              !.source = "inferred",
                              !.writeRateUsed = Num(rate),
                              !.inferencePerformed = TRUE,
                              !.writeTokens = writeTokens,
                              !.costWriteRaw = rate * writeTokens,
                              !.notes = note1
                                  \o (IF clampedWrites # roundedWrites
                                      THEN <<"write_tokens_clamped">> ELSE <<>>)
                                  \o (IF ttlMode = "mixed"
                                      THEN <<"mixed_ttl_ambiguous">> ELSE <<>>)]
                 ELSE [inferred EXCEPT !.source = "unavailable",
                                       !.notes = note1 \o <<"missing_write_rate">>]
        ELSE [base EXCEPT !.inferenceNeeded = TRUE,
                          !.notes =
                              (IF actualCostRaw = Null THEN <<"missing_actual_cost">> ELSE <<>>)
                              \o (IF ~IsFinite(costInputRaw) \/ ~IsFinite(costOutputRaw)
                                     \/ ~IsFinite(costReadRaw)
                                  THEN <<"missing_pricing">> ELSE <<>>)]

\* the write half of computeUsageMetrics: which of the four sources applies,
\* the write tokens and their raw cost
WriteEstimate(usage, ttlMode, res, promptTokens, actualCostRaw, costInputRaw, costOutputRaw, costReadRaw) ==
    LET upstreamBreakdown == usage.cache_creation
        base == [writeTokens |-> 0, costWriteRaw |-> 0, source |-> "unavailable",
                 notes |-> <<>>, inferenceNeeded |-> FALSE, inferencePerformed |-> FALSE,
                 writeRateUsed |-> Null, residualBeforeClamp |-> Null,
                 residualAfterClamp |-> Null]
    IN  IF upstreamBreakdown # Null
           /\ (upstreamBreakdown[1].ephemeral_5m_input_tokens # Undefined
               \/ upstreamBreakdown[1].ephemeral_1h_input_tokens # Undefined)
        THEN LET five == normaliseTokens(upstreamBreakdown[1].ephemeral_5m_input_tokens)
                 one == normaliseTokens(upstreamBreakdown[1].ephemeral_1h_input_tokens)
             IN  [base EXCEPT !.writeTokens = Max(0, five + one),
                              !.source = "upstream_detailed",
                              !.costWriteRaw =
                                  (IF res.writeRate5m > 0 THEN five * res.writeRate5m ELSE 0)
                                  + (IF res.writeRate1h > 0 THEN one * res.writeRate1h ELSE 0)]
        ELSE IF usage.cache_creation_input_tokens # Undefined
        THEN LET writeTokens == clampWriteTokens(
                     normaliseTokens(usage.cache_creation_input_tokens), promptTokens)
                 rate == IF ttlMode = "ephemeral_1h" THEN res.writeRate1h ELSE res.writeRate5m
             IN  [base EXCEPT !.writeTokens = writeTokens,
                              !.source = "upstream_simple",
                              !.writeRateUsed = IF rate > 0 THEN Num(rate) ELSE Null,
                              !.costWriteRaw = IF rate > 0 THEN rate * writeTokens ELSE 0]
        ELSE IF actualCostRaw # Null /\ IsFinite(costInputRaw) /\ IsFinite(costOutputRaw)
                /\ IsFinite(costReadRaw)
        THEN LET knownCost == Val(costInputRaw) + Val(costOutputRaw) + Val(costReadRaw)
                 residualBeforeClamp == Val(actualCostRaw) - knownCost
                 residualAfterClamp == IF residualBeforeClamp > 0 THEN residualBeforeClamp ELSE 0
                 note1 == IF residualBeforeClamp < 0 THEN <<"negative_residual_clamped">> ELSE <<>>
                 rate == deriveWriteRate(ttlMode, res.promptRate)
                 inferred == [base EXCEPT !.inferenceNeeded = TRUE,
                                          !.residualBeforeClamp = Num(residualBeforeClamp),
                                          !.residualAfterClamp = Num(residualAfterClamp)]
             IN  IF rate > 0
                 THEN LET roundedWrites == RoundDiv(residualAfterClamp, rate)
                          clampedWrites == clampWriteTokens(roundedWrites, promptTokens)
                          writeTokens == Max(0, clampedWrites)
                      IN  [inferred EXCEPT
                              !.source = "inferred",
                              !.writeRateUsed = Num(rate),
                              !.inferencePerformed = TRUE,
                              !.writeTokens = writeTokens,
                              !.costWriteRaw = rate * writeTokens,
                              !.notes = note1
                                  \o (IF clampedWrites # roundedWrites
                                      THEN <<"write_tokens_clamped">> ELSE <<>>)
                                  \o (IF ttlMode = "mixed"
                                      THEN <<"mixed_ttl_ambiguous">> ELSE <<>>)]
                 ELSE [inferred EXCEPT !.source = "unavailable",
                                       !.notes = note1 \o <<"missing_write_rate">>]
        ELSE [base EXCEPT !.inferenceNeeded = TRUE,
                          !.notes =
                              (IF actualCostRaw = Null THEN <<"missing_actual_cost">> ELSE <<>>)
                              \o (IF ~IsFinite(costInputRaw) \/ ~IsFinite(costOutputRaw)
                                     \/ ~IsFinite(costReadRaw)
                                  THEN <<"missing_pricing">> ELSE <<>>)]

\* mutant: the total is always the sum of the legs
TotalCostFromLegs(actualCostRounded, legs) == roundCurrency(Num(legs))

\* totalCost from the rounded upstream cost and the sum of the rounded legs
TotalCost(actualCostRounded, legs) ==
    IF actualCostRounded # Null THEN Val(actualCostRounded)
    ELSE roundCurrency(Num(legs))

\* computeUsageMetrics, given what resolvePricing returned
computeUsageMetrics(usage, ttlMode, res) ==
    LET promptTokens == normaliseTokens(usage.prompt_tokens)
        completionTokens == normaliseTokens(usage.completion_tokens)
        reasoningTokens == normaliseTokens(usage.reasoning_tokens)
        cacheReadTokens == normaliseTokens(usage.cached_tokens)
        outputTokens == completionTokens
        inputTokens == Max(0, promptTokens - cacheReadTokens)
        actualCostRaw == IF usage.cost = Undefined THEN Null ELSE Num(safeNumber(usage.cost))
        costInputRaw == IF res.promptRate > 0 THEN Num(inputTokens * res.promptRate) ELSE Null
        costOutputRaw == IF res.completionRate > 0
                         THEN Num(outputTokens * res.completionRate) ELSE Null
        costReadRaw == IF res.readRate > 0 THEN Num(cacheReadTokens * res.readRate) ELSE Null
        w == WriteEstimate(usage, ttlMode, res, promptTokens, actualCostRaw,
                           costInputRaw, costOutputRaw, costReadRaw)
        costWriteRaw == IF w.costWriteRaw < 0 THEN 0 ELSE w.costWriteRaw
        cacheCreationPayload ==
            buildCacheCreationBreakdown(w.source, ttlMode, w.writeTokens, usage.cache_creation)
        costInput == IF IsFinite(costInputRaw) THEN roundCurrency(costInputRaw) ELSE 0
        costOutput == IF IsFinite(costOutputRaw) THEN roundCurrency(costOutputRaw) ELSE 0
        costRead == IF IsFinite(costReadRaw) THEN roundCurrency(costReadRaw) ELSE 0
        costWrite == roundCurrency(Num(costWriteRaw))
        legs == costInput + costOutput + costRead + costWrite
        actualCostRounded == IF actualCostRaw # Null
                             THEN Num(roundCurrency(actualCostRaw)) ELSE Null
        totalCost == TotalCost(actualCostRounded, legs)
        residualCost == IF actualCostRounded # Null
                        THEN roundCurrency(Num(Val(actualCostRounded) - legs)) ELSE 0
    IN  [usage |-> [input_tokens |-> inputTokens,
                    output_tokens |-> outputTokens,
                    cache_read_input_tokens |-> cacheReadTokens,
                    cache_creation_input_tokens |-> w.writeTokens,
                    reasoning_tokens |->
                        IF reasoningTokens > 0 THEN Num(reasoningTokens) ELSE Undefined,
                    cache_creation |->
                        IF cacheCreationPayload.allowField
                        THEN (IF cacheCreationPayload.breakdown # Null
                              THEN cacheCreationPayload.breakdown ELSE Breakdown(0, 0))
                        ELSE Null],
         tokens |-> [input |-> inputTokens, output |-> outputTokens,
                     cacheRead |-> cacheReadTokens, cacheCreation |-> w.writeTokens],
         costs |-> [input |-> costInput, output |-> costOutput, read |-> costRead,
                    write |-> costWrite, total |-> totalCost, residual |-> residualCost,
                    actual |-> actualCostRounded],
         debug |-> [priceSource |-> res.pricingSource,
                    prompt_tokens |-> promptTokens,
                    residual_before_clamp |-> w.residualBeforeClamp,
                    residual_after_clamp |-> w.residualAfterClamp,
                    needed |-> w.inferenceNeeded,
                    performed |-> w.inferencePerformed,
                    write_rate_used |-> w.writeRateUsed,
                    writes_rounded |-> w.writeTokens],
         estimation |-> [inferred |-> w.source = "inferred" /\ w.inferencePerformed,
                         source |-> w.source,
                         ttlMode |-> ttlMode,
                         notes |-> w.notes],
         pricing |-> [source |-> res.pricingSource,
                      timestamp |-> getPricingCacheTimestamp(res.cache)]]


(***************************************************************************)
(* Request translator.                                                     *)
(*                                                                         *)
(* An inbound message is [role, isArray, blocks]: content is a plain       *)
(* string when isArray is FALSE, else the array blocks of [type, id].      *)
(* An OpenAI message is [role, content, tool_calls, tool_call_id, uid]:    *)
(*   content     [kind |-> "null" | "string" | "array", blocks |-> ...]    *)
(*   tool_calls  the ids of the calls, <<>> when the field is absent       *)
(*   uid         the position in the flattened list (identity of the       *)
(*               message object, kept by the shallow copy of validation)   *)
(***************************************************************************)
TextBlock == [type |-> "text", id |-> NoId]
ToolUseBlock(t) == [type |-> "tool_use", id |-> t]
ToolResultBlock(t) == [type |-> "tool_result", id |-> t]

\* the block kinds a client sends in a message of the given role
BlockKinds(role) ==
    IF role = "assistant"
    THEN {TextBlock} \cup {ToolUseBlock(t) : t \in ToolIds}
    ELSE {TextBlock} \cup {ToolResultBlock(t) : t \in ToolIds}

NullContent == [kind |-> "null", blocks |-> <<>>]
StringContent == [kind |-> "string", blocks |-> <<>>]
ArrayContent(bs) == [kind |-> "array", blocks |-> bs]

\* JavaScript truthiness of message.content (texts of the model are non-empty)
Truthy(content) == content.kind # "null"

OpenAIMessage(role, content, calls, callId) ==
    [role |-> role, content |-> content, tool_calls |-> calls,
     tool_call_id |-> callId, uid |-> 0]

\* an image block: source is [type, url, media_type, data], "" for a field
\* that is missing
ImageBlock(source) == [type |-> "image", id |-> NoId, source |-> source]
\* a text block that carries a cache_control annotation
AnnotatedText(control) == [type |-> "text", id |-> NoId, cache_control |-> control]

AllowedMediaTypes == {"image/jpeg", "image/png", "image/gif", "image/webp"}

\* the outcome of a call: the BadRequestError thrown, or the value returned
Throw(message) == [thrown |-> TRUE, message |-> message, value |-> [type |-> "none"]]
Return(value) == [thrown |-> FALSE, message |-> "", value |-> value]

mapAnthropicImageToOpenAIImageUrl(contentPart) ==
    LET src == contentPart.source
    IN  IF src.type = "" THEN Throw("Image block is missing source.type")
        ELSE IF src.type = "url"
        THEN IF src.url = "" THEN Throw("Image source.type=url requires a valid url")
             ELSE Return([type |-> "image_url", url |-> <<src.url>>])
        ELSE IF src.type = "base64"
        THEN IF src.media_type \notin AllowedMediaTypes
             THEN Throw("Unsupported image media_type")
             ELSE IF src.data = ""
             THEN Throw("Image source.type=base64 requires a base64 data string")
             ELSE Return([type |-> "image_url",
                          url |-> <<"data:", src.media_type, ";base64,", src.data>>])
        ELSE IF src.type = "file" THEN Throw("Image source.type=file is not supported")
        ELSE Throw("Unsupported image source type")

\* mutant: image blocks are passed over
ContentBlocksOfTextOnly(blocks) ==
    LET t == SelectSeq(blocks, LAMBDA b : b.type = "text")
    IN  [i \in 1..Len(t) |-> [type |-> "text", cache_control |-> FALSE]]

\* contentBlocks of one inbound message: its text and image blocks, in order
ContentBlocksOf(blocks) ==
    LET t == SelectSeq(blocks, LAMBDA b : b.type \in {"text", "image"})
    IN  [i \in 1..Len(t) |->
            IF t[i].type = "text" THEN [type |-> "text", cache_control |-> FALSE]
            ELSE mapAnthropicImageToOpenAIImageUrl(t[i]).value]

\* the messages of the errors that the image blocks of one inbound message
\* would raise, in the order of the blocks
ImageErrors(m) ==
    IF m.isArray /\ m.role \in {"assistant", "user"}
    THEN LET t == SelectSeq(m.blocks,
                     LAMBDA b : b.type = "image"
                                /\ mapAnthropicImageToOpenAIImageUrl(b).thrown)
         IN  [i \in 1..Len(t) |-> mapAnthropicImageToOpenAIImageUrl(t[i]).message]
    ELSE <<>>

\* string for a single text block, array for several, null for none
DecideContent(contentBlocks) ==
    IF Len(contentBlocks) > 1 \/ \E i \in 1..Len(contentBlocks) : contentBlocks[i].type = "image_url"
    THEN ArrayContent(contentBlocks)
    ELSE IF Len(contentBlocks) = 1 /\ contentBlocks[1].type = "text"
         THEN StringContent
         ELSE NullContent

ToolCallsOf(blocks) ==
    LET t == SelectSeq(blocks, LAMBDA b : b.type = "tool_use")
    IN  [i \in 1..Len(t) |-> t[i].id]

SubsequentToolMessages(blocks) ==
    LET t == SelectSeq(blocks, LAMBDA b : b.type = "tool_result")
    IN  [i \in 1..Len(t) |-> OpenAIMessage("tool", StringContent, <<>>, t[i].id)]

\* the callback of messages.flatMap: the OpenAI messages of one inbound message
FlattenMessage(m) ==
    IF ~m.isArray
    THEN <<OpenAIMessage(m.role, StringContent, <<>>, NoId)>>
    ELSE IF m.role = "assistant"
    THEN LET content == DecideContent(ContentBlocksOf(m.blocks))
             calls == ToolCallsOf(m.blocks)
         IN  IF Truthy(content) \/ Len(calls) > 0
             THEN <<OpenAIMessage("assistant", content, calls, NoId)>>
             ELSE <<>>
    ELSE IF m.role = "user"
    THEN LET contentBlocks == ContentBlocksOf(m.blocks)
         IN  (IF Len(contentBlocks) > 0
              THEN <<OpenAIMessage("user", DecideContent(contentBlocks), <<>>, NoId)>>
              ELSE <<>>)
             \o SubsequentToolMessages(m.blocks)
    ELSE <<>>

FlattenMessages(messages) ==
    LET flat == Concat([i \in 1..Len(messages) |-> FlattenMessage(messages[i])])
    IN  [i \in 1..Len(flat) |-> [flat[i] EXCEPT !.uid = i]]

\* the index after the run of tool messages that starts at j
RECURSIVE ToolRunEnd(_, _)
ToolRunEnd(messages, j) ==
    IF j <= Len(messages) /\ messages[j].role = "tool"
    THEN ToolRunEnd(messages, j + 1)
    ELSE j

\* immediateToolMessages of the assistant message at i
ImmediateToolMessages(messages, i) ==
    SubSeq(messages, i + 1, ToolRunEnd(messages, i + 1) - 1)

HasCall(m, id) == \E c \in 1..Len(m.tool_calls) : m.tool_calls[c] = id

\* mutant: no call is filtered out
ValidToolCallsKeepAll(messages, i) == messages[i].tool_calls

\* validToolCalls of the assistant message at i
ValidToolCalls(messages, i) ==
    LET run == ImmediateToolMessages(messages, i)
    IN  SelectSeq(messages[i].tool_calls,
                  LAMBDA id : \E k \in 1..Len(run) : run[k].tool_call_id = id)

\* the loop "for (let k = i - 1; k >= 0; k--)" of the tool branch
RECURSIVE ScanBack(_, _, _)
ScanBack(messages, k, id) ==
    IF k < 1 THEN FALSE
    ELSE IF messages[k].role = "tool" THEN ScanBack(messages, k - 1, id)
    ELSE messages[k].role = "assistant" /\ Len(messages[k].tool_calls) > 0
         /\ HasCall(messages[k], id)

\* mutant: the tool message is matched against any earlier assistant message
HasImmediateToolCallAnywhere(messages, i) ==
    \E k \in 1..(i - 1) : messages[k].role = "assistant"
                          /\ HasCall(messages[k], messages[i].tool_call_id)

\* hasImmediateToolCall of the tool message at i
HasImmediateToolCall(messages, i) ==
    IF i <= 1 THEN FALSE
    ELSE LET prevMessage == messages[i - 1]
         IN  IF prevMessage.role = "assistant" /\ Len(prevMessage.tool_calls) > 0
             THEN HasCall(prevMessage, messages[i].tool_call_id)
             ELSE IF prevMessage.role = "tool"
                  THEN ScanBack(messages, i - 1, messages[i].tool_call_id)
                  ELSE FALSE

\* mutant: an assistant message emptied of its calls is pushed all the same
ValidateAtKeepEmpty(messages, i) ==
    LET currentMessage == messages[i]
    IN  IF currentMessage.role = "assistant" /\ Len(currentMessage.tool_calls) > 0
        THEN <<[currentMessage EXCEPT !.tool_calls = ValidToolCalls(messages, i)]>>
        ELSE IF currentMessage.role = "tool"
        THEN IF HasImmediateToolCall(messages, i) THEN <<currentMessage>> ELSE <<>>
        ELSE <<currentMessage>>

\* one iteration of the loop of validateOpenAIToolCalls: what it pushes for i
ValidateAt(messages, i) ==
    LET currentMessage == messages[i]
    IN  IF currentMessage.role = "assistant" /\ Len(currentMessage.tool_calls) > 0
        THEN LET validToolCalls == ValidToolCalls(messages, i)
             IN  IF Truthy(currentMessage.content) \/ Len(validToolCalls) > 0
                 THEN <<[currentMessage EXCEPT !.tool_calls = validToolCalls]>>
                 ELSE <<>>
        ELSE IF currentMessage.role = "tool"
        THEN IF HasImmediateToolCall(messages, i) THEN <<currentMessage>> ELSE <<>>
        ELSE <<currentMessage>>

validateOpenAIToolCalls(messages) ==
    Concat([i \in 1..Len(messages) |-> ValidateAt(messages, i)])

\* one system message per item of body.system
SystemMessages(body) ==
    [i \in 1..body.system |->
        [role |-> "system",
         content |-> ArrayContent(<<[type |-> "text",
                                     cache_control |-> body.claude /\ i = body.system]>>),
         tool_calls |-> <<>>, tool_call_id |-> NoId, uid |-> 0]]

\* breakpoint 2: cache_control on the last block of the last non-system message
WithBreakpoint(body, messages) ==
    IF Len(messages) = 0 \/ ~body.claude THEN messages
    ELSE LET lastMessage == Last(messages)
             n == Len(lastMessage.content.blocks)
         IN  IF lastMessage.role = "system" \/ ~Truthy(lastMessage.content)
             THEN messages
             ELSE IF lastMessage.content.kind = "array" /\ n > 0
             THEN IF lastMessage.content.blocks[n].type = "text"
                  THEN [messages EXCEPT ![Len(messages)].content.blocks[n].cache_control = TRUE]
                  ELSE messages
             ELSE IF lastMessage.content.kind = "string"
             THEN [messages EXCEPT ![Len(messages)].content =
                      ArrayContent(<<[type |-> "text", cache_control |-> TRUE]>>)]
             ELSE messages

\* data.messages of formatAnthropicToOpenAI
formatAnthropicToOpenAI(body) ==
    WithBreakpoint(body,
        SystemMessages(body) \o validateOpenAIToolCalls(FlattenMessages(body.messages)))

\* Null, or <<the BadRequestError>> that ends formatAnthropicToOpenAI: the
\* one of the first image block that messages.flatMap cannot map
formatAnthropicToOpenAIThrows(body) ==
    LET all == Concat([i \in 1..Len(body.messages) |-> ImageErrors(body.messages[i])])
    IN  IF all = <<>> THEN Null
        ELSE <<[name |-> "BadRequestError", status |-> 400, message |-> all[1]]>>

(***************************************************************************)
(* Cache-control classifier (collectCacheControlMetadata).  A cache_control *)
(* is Undefined or <<[type, ttl]>>; a ttl is Undefined, a string or a      *)
(* number.                                                                 *)
(***************************************************************************)
TtlString(text) == <<[string |-> TRUE, text |-> text, n |-> 0]>>
TtlNumber(n) == <<[string |-> FALSE, text |-> "", n |-> n]>>
CacheControl(type, ttl) == <<[type |-> type, ttl |-> ttl]>>

\* ttl.trim().toLowerCase(), on the strings of the model
TrimLower(text) == IF text = " 1H " THEN "1h" ELSE text

normalizeTtlRaw(ttl) ==
    IF ttl = Undefined THEN Null
    ELSE IF ttl[1].string
    THEN LET normalized == TrimLower(ttl[1].text)
         IN  IF normalized \in {"1h", "1hr", "3600s", "3600", "60m"} THEN <<"1h">>
             ELSE IF normalized \in {"5m", "5min", "300s", "300"} THEN <<"5m">>
             ELSE Null
    ELSE IF ttl[1].n >= 3600 THEN <<"1h">>
    ELSE IF ttl[1].n > 0 THEN <<"5m">>
    ELSE Null

\* value.cache_control
ControlOf(value) ==
    IF "cache_control" \in DOMAIN value THEN value.cache_control ELSE Undefined

\* recordCacheControl: the entries it adds to sources, none or one
recordCacheControl(value, origin) ==
    LET cacheControl == ControlOf(value)
    IN  IF cacheControl = Undefined THEN <<>>
        ELSE IF cacheControl[1].type # "ephemeral" THEN <<>>
        ELSE LET ttl == normalizeTtlRaw(cacheControl[1].ttl)
             IN  <<[origin |-> origin, ttl |-> IF ttl # Null THEN ttl[1] ELSE "default"]>>

inspectContentParts(m, origin) ==
    IF ~m.isArray THEN <<>>
    ELSE Concat([idx \in 1..Len(m.blocks) |->
                    recordCacheControl(m.blocks[idx], origin \o <<"content", idx>>)])

\* mutant: an annotation without TTL does not make a 1h request mixed
ttlModeOfExplicitOnly(explicit, sawEphemeralWithoutTtl) ==
    IF "1h" \in explicit /\ "5m" \in explicit THEN "mixed"
    ELSE IF "1h" \in explicit THEN "ephemeral_1h"
    ELSE "ephemeral_5m"

\* the precedence of the TTL mode
ttlModeOf(explicit, sawEphemeralWithoutTtl) ==
    IF "1h" \in explicit /\ ("5m" \in explicit \/ sawEphemeralWithoutTtl) THEN "mixed"
    ELSE IF "1h" \in explicit THEN "ephemeral_1h"
    ELSE "ephemeral_5m"

collectCacheControlMetadata(body) ==
    LET ofSystem ==
            Concat([idx \in 1..Len(body.systemControl) |->
                       recordCacheControl([cache_control |-> body.systemControl[idx]],
                                          <<"system", idx>>)])
        ofMessages ==
            Concat([msgIdx \in 1..Len(body.messages) |->
                       recordCacheControl(body.messages[msgIdx], <<"messages", msgIdx>>)
                       \o inspectContentParts(body.messages[msgIdx], <<"messages", msgIdx>>)])
        sources == ofSystem \o ofMessages
        explicit == {sources[i].ttl : i \in 1..Len(sources)} \ {"default"}
        sawEphemeralWithoutTtl == \E i \in 1..Len(sources) : sources[i].ttl = "default"
    IN  [ttlMode |-> ttlModeOf(explicit, sawEphemeralWithoutTtl),
         explicitTtls |-> explicit,
         sawEphemeralWithoutTtl |-> sawEphemeralWithoutTtl,
         sawCacheControl |-> sources # <<>>,
         sources |-> sources]

(***************************************************************************)
(* Claims about the request translator.                                    *)
(***************************************************************************)
\* j lies in the run of consecutive tool messages that directly follows i
(***************************************************************************)
(* Streaming translator (streamOpenAIToAnthropic).  The upstream body is a *)
(* sequence of byte tokens: "data: ", the pieces of a JSON text ("{", the  *)
(* name of its content, "}"), "[DONE]" and "\n".  Date.now() in the ids    *)
(* of the message and of the search results is left out.                   *)
(***************************************************************************)
NoUsageFields == [prompt_tokens |-> Undefined, completion_tokens |-> Undefined,
                  reasoning_tokens |-> Undefined, cached_tokens |-> Undefined,
                  cost |-> Undefined, cache_creation_input_tokens |-> Undefined,
                  cache_creation |-> Null]
NoDelta == [reasoning |-> "", reasoning_details |-> Null, tool_calls |-> <<>>,
            content |-> "", annotations |-> Null]
ToolCallDelta(id, arguments) == [id |-> id, arguments |-> arguments]

\* JSON.parse of the text "{" name "}": [delta, usage], both optional
Parsed(name) ==
    CASE name = "text" ->
            [delta |-> <<[NoDelta EXCEPT !.content = "hi"]>>, usage |-> Null]
      [] name = "reasoning" ->
            [delta |-> <<[NoDelta EXCEPT !.reasoning = "hm"]>>, usage |-> Null]
      [] name = "redacted" ->
            [delta |-> <<[NoDelta EXCEPT !.reasoning_details = <<(<<"encrypted">>)>>]>>,
             usage |-> Null]
      [] name = "details" ->
            [delta |-> <<[NoDelta EXCEPT !.reasoning_details = <<(<<"text", "encrypted">>)>>]>>,
             usage |-> Null]
      [] name = "toolA" ->
            [delta |-> <<[NoDelta EXCEPT !.tool_calls = <<ToolCallDelta("a", "{")>>]>>,
             usage |-> Null]
      [] name = "toolB" ->
            [delta |-> <<[NoDelta EXCEPT !.tool_calls = <<ToolCallDelta("b", "")>>]>>,
             usage |-> Null]
      [] name = "args" ->
            [delta |-> <<[NoDelta EXCEPT !.tool_calls = <<ToolCallDelta(NoId, "}")>>]>>,
             usage |-> Null]
      [] name = "both" ->
            [delta |-> <<[NoDelta EXCEPT !.content = "hi",
                                         !.tool_calls = <<ToolCallDelta("a", "")>>]>>,
             usage |-> Null]
      [] name = "annotations" ->
            [delta |-> <<[NoDelta EXCEPT !.annotations = <<1>>]>>, usage |-> Null]
      [] name = "usage1" ->
            [delta |-> Null,
             usage |-> <<[NoUsageFields EXCEPT !.prompt_tokens = Num(3),
                                               !.completion_tokens = Num(1),
                                               !.cached_tokens = Num(1),
                                               !.cost = Num(132)]>>]
      [] name = "usage2" ->
            [delta |-> <<NoDelta>>,
             usage |-> <<[NoUsageFields EXCEPT !.prompt_tokens = Num(2),
                                               !.completion_tokens = Num(0),
                                               !.reasoning_tokens = Num(1),
                                               !.cached_tokens = Num(0),
                                               !.cost = Num(0)]>>]
      [] name = "usage3" ->
            [delta |-> Null,
             usage |-> <<[NoUsageFields EXCEPT !.prompt_tokens = Num(1),
                                               !.completion_tokens = Num(1),
                                               !.cached_tokens = Num(2)]>>]
      [] name = "usage4" ->
            [delta |-> Null,
             usage |-> <<[NoUsageFields EXCEPT !.prompt_tokens = Num(2),
                                               !.completion_tokens = Num(-1),
                                               !.cost = Num(90)]>>]

JsonNames == {"text", "reasoning", "redacted", "details", "toolA", "toolB", "args",
              "both", "annotations", "usage1", "usage2", "usage3", "usage4"}

\* one SSE frame as the upstream writes it: a data line, the last frame of
\* a response also the blank line that ends an event; "bad" is a JSON text
\* cut short
Frame(kind) ==
    IF kind = "[DONE]" THEN <<"data: ", "[DONE]", "\n", "\n">>
    ELSE IF kind = "bad" THEN <<"data: ", "{", "text", "\n">>
    ELSE <<"data: ", "{", kind, "}", "\n">>

Event(type) == [type |-> type, index |-> -1, block |-> "", kind |-> "", text |-> "",
                stop_reason |-> "", usage |-> Null]
MessageStart ==
    [Event("message_start") EXCEPT !.usage = <<[input_tokens |-> 0, output_tokens |-> 0]>>]
BlockStart(index, block, id) ==
    [Event("content_block_start") EXCEPT !.index = index, !.block = block, !.text = id]
BlockDelta(index, kind, text) ==
    [Event("content_block_delta") EXCEPT !.index = index, !.kind = kind, !.text = text]
BlockStop(index) == [Event("content_block_stop") EXCEPT !.index = index]
MessageDelta(stop_reason, usage) ==
    [Event("message_delta") EXCEPT !.stop_reason = stop_reason, !.usage = <<usage>>]
MessageStop == Event("message_stop")

\* the variables of one call of start(controller), and the events enqueued
StreamStart ==
    [out |-> <<MessageStart>>,
     buffer |-> <<>>,
     contentBlockIndex |-> 0,
     hasStartedTextBlock |-> FALSE,
     hasStartedThinkingBlock |-> FALSE,
     isToolUse |-> FALSE,
     currentToolCallId |-> NoId,
     hasProcessedAnnotations |-> FALSE,
     totalInputTokens |-> 0,
     totalOutputTokens |-> 0,
     totalReasoningTokens |-> 0,
     totalCacheReadTokens |-> 0,
     actualCost |-> Null,
     cancelled |-> FALSE]

enqueueSSE(s, event) == [s EXCEPT !.out = Append(@, event)]

StopCurrent(s) == enqueueSSE(s, BlockStop(s.contentBlockIndex))

StartThinking(s) ==
    IF s.hasStartedThinkingBlock THEN s
    ELSE [enqueueSSE(s, BlockStart(s.contentBlockIndex, "thinking", ""))
             EXCEPT !.hasStartedThinkingBlock = TRUE]

\* mutant: the redacted pair is written at the next index, which is not kept
ReasoningDetailIndexNotKept(s, item) ==
    IF item = "encrypted"
    THEN enqueueSSE(enqueueSSE(s, BlockStart(s.contentBlockIndex + 1, "redacted_thinking", "")),
                    BlockStop(s.contentBlockIndex + 1))
    ELSE s

\* one entry of delta.reasoning_details
ReasoningDetail(s, item) ==
    IF item = "encrypted"
    THEN LET closed == IF s.hasStartedThinkingBlock
                       THEN [StopCurrent(s) EXCEPT !.hasStartedThinkingBlock = FALSE]
                       ELSE s
             redIdx == closed.contentBlockIndex + 1
             at == [closed EXCEPT !.contentBlockIndex = redIdx]
         IN  enqueueSSE(enqueueSSE(at, BlockStart(redIdx, "redacted_thinking", "")),
                        BlockStop(redIdx))
    ELSE IF item = "text"
    THEN LET started == StartThinking(s)
         IN  enqueueSSE(started, BlockDelta(started.contentBlockIndex, "text_delta", "hm"))
    ELSE s

RECURSIVE ReasoningDetails(_, _)
ReasoningDetails(s, items) ==
    IF items = <<>> THEN s
    ELSE ReasoningDetails(ReasoningDetail(s, Head(items)), Tail(items))

\* processStreamDelta, the reasoning part
HandleReasoning(s, delta) ==
    IF delta.reasoning = "" /\ delta.reasoning_details = Null THEN s
    ELSE LET closed ==
                 IF ~s.hasStartedThinkingBlock /\ (s.isToolUse \/ s.hasStartedTextBlock)
                 THEN [StopCurrent(s) EXCEPT !.isToolUse = FALSE,
                                             !.hasStartedTextBlock = FALSE,
                                             !.contentBlockIndex = @ + 1]
                 ELSE s
             detailed == IF delta.reasoning_details # Null
                         THEN ReasoningDetails(closed, delta.reasoning_details[1])
                         ELSE closed
         IN  IF delta.reasoning # ""
             THEN LET started == StartThinking(detailed)
                  IN  enqueueSSE(started, BlockDelta(started.contentBlockIndex,
                                                     "text_delta", delta.reasoning))
             ELSE detailed

CloseThinking(s) ==
    IF s.hasStartedThinkingBlock
    THEN [StopCurrent(s) EXCEPT !.hasStartedThinkingBlock = FALSE,
                                !.contentBlockIndex = @ + 1]
    ELSE s

\* mutant: starting a tool_use block leaves hasStartedTextBlock as it was
ToolCallKeepsTextFlag(s, toolCall) ==
    LET opened ==
            IF toolCall.id # NoId /\ toolCall.id # s.currentToolCallId
            THEN LET closed == IF s.isToolUse \/ s.hasStartedTextBlock
                               THEN StopCurrent(s) ELSE s
                     at == [closed EXCEPT !.isToolUse = TRUE,
                                          !.currentToolCallId = toolCall.id,
                                          !.contentBlockIndex = @ + 1]
                 IN  enqueueSSE(at, BlockStart(at.contentBlockIndex, "tool_use", toolCall.id))
            ELSE s
    IN  IF toolCall.arguments # "" /\ opened.currentToolCallId # NoId
        THEN enqueueSSE(opened, BlockDelta(opened.contentBlockIndex, "input_json_delta",
                                           toolCall.arguments))
        ELSE opened

\* one entry of delta.tool_calls
ToolCall(s, toolCall) ==
    LET opened ==
            IF toolCall.id # NoId /\ toolCall.id # s.currentToolCallId
            THEN LET closed == IF s.isToolUse \/ s.hasStartedTextBlock
                               THEN StopCurrent(s) ELSE s
                     at == [closed EXCEPT !.isToolUse = TRUE,
                                          !.hasStartedTextBlock = FALSE,
                                          !.currentToolCallId = toolCall.id,
                                          !.contentBlockIndex = @ + 1]
                 IN  enqueueSSE(at, BlockStart(at.contentBlockIndex, "tool_use", toolCall.id))
            ELSE s
    IN  IF toolCall.arguments # "" /\ opened.currentToolCallId # NoId
        THEN enqueueSSE(opened, BlockDelta(opened.contentBlockIndex, "input_json_delta",
                                           toolCall.arguments))
        ELSE opened

RECURSIVE ToolCalls(_, _)
ToolCalls(s, calls) ==
    IF calls = <<>> THEN s ELSE ToolCalls(ToolCall(s, Head(calls)), Tail(calls))

\* processStreamDelta, the text part
HandleContent(s, delta) ==
    LET afterThinking == CloseThinking(s)
        afterTool == IF afterThinking.isToolUse
                     THEN [StopCurrent(afterThinking) EXCEPT !.isToolUse = FALSE,
                                                             !.currentToolCallId = NoId,
                                                             !.contentBlockIndex = @ + 1]
                     ELSE afterThinking
        started == IF ~afterTool.hasStartedTextBlock
                   THEN [enqueueSSE(afterTool, BlockStart(afterTool.contentBlockIndex, "text", ""))
                            EXCEPT !.hasStartedTextBlock = TRUE]
                   ELSE afterTool
    IN  enqueueSSE(started, BlockDelta(started.contentBlockIndex, "text_delta", delta.content))

RECURSIVE SearchResults(_, _)
SearchResults(s, n) ==
    IF n = 0 THEN s
    ELSE SearchResults(
             [enqueueSSE(enqueueSSE(s, BlockStart(s.contentBlockIndex,
                                                  "web_search_tool_result", "")),
                         BlockStop(s.contentBlockIndex))
                 EXCEPT !.contentBlockIndex = @ + 1],
             n - 1)

\* processStreamDelta, the annotations part
HandleAnnotations(s, delta) ==
    IF delta.annotations = Null \/ s.hasProcessedAnnotations THEN s
    ELSE LET marked == [s EXCEPT !.hasProcessedAnnotations = TRUE]
             closed == IF marked.isToolUse \/ marked.hasStartedTextBlock
                          \/ marked.hasStartedThinkingBlock
                       THEN [StopCurrent(marked) EXCEPT !.isToolUse = FALSE,
                                                        !.hasStartedTextBlock = FALSE,
                                                        !.hasStartedThinkingBlock = FALSE,
                                                        !.contentBlockIndex = @ + 1]
                       ELSE marked
         IN  SearchResults(closed, delta.annotations[1])

\* processStreamDelta while the controller accepts the events
DeliveredDelta(s, delta) ==
    LET reasoned == HandleReasoning(s, delta)
        body == IF Len(delta.tool_calls) > 0
                THEN ToolCalls(CloseThinking(reasoned), delta.tool_calls)
                ELSE IF delta.content # "" THEN HandleContent(reasoned, delta)
                ELSE reasoned
    IN  HandleAnnotations(body, delta)

(***************************************************************************)
(* After the consumer has cancelled, the stream is closed and              *)
(* controller.enqueue throws: processStreamDelta ends at its first         *)
(* enqueueSSE, the assignments made before it remain, and the caller's     *)
(* try/catch around the line swallows the exception.                       *)
(***************************************************************************)
Thrown(s) == [s |-> s, thrown |-> TRUE]
Passed(s) == [s |-> s, thrown |-> FALSE]

RECURSIVE RefusedDetails(_, _)
RefusedDetails(s, items) ==
    IF items = <<>> THEN Passed(s)
    ELSE IF Head(items) = "encrypted"
    THEN Thrown(IF s.hasStartedThinkingBlock THEN s
                ELSE [s EXCEPT !.contentBlockIndex = @ + 1])
    ELSE IF Head(items) = "text" THEN Thrown(s)
    ELSE RefusedDetails(s, Tail(items))

RefusedReasoning(s, delta) ==
    IF delta.reasoning = "" /\ delta.reasoning_details = Null THEN Passed(s)
    ELSE IF ~s.hasStartedThinkingBlock /\ (s.isToolUse \/ s.hasStartedTextBlock)
    THEN Thrown(s)
    ELSE LET detailed == IF delta.reasoning_details # Null
                         THEN RefusedDetails(s, delta.reasoning_details[1])
                         ELSE Passed(s)
         IN  IF detailed.thrown THEN detailed
             ELSE IF delta.reasoning # "" THEN Thrown(s) ELSE Passed(s)

RECURSIVE RefusedToolCalls(_, _)
RefusedToolCalls(s, calls) ==
    IF calls = <<>> THEN Passed(s)
    ELSE LET toolCall == Head(calls)
         IN  IF toolCall.id # NoId /\ toolCall.id # s.currentToolCallId
             THEN IF s.isToolUse \/ s.hasStartedTextBlock THEN Thrown(s)
                  ELSE Thrown([s EXCEPT !.isToolUse = TRUE,
                                        !.hasStartedTextBlock = FALSE,
                                        !.currentToolCallId = toolCall.id,
                                        !.contentBlockIndex = @ + 1])
             ELSE IF toolCall.arguments # "" /\ s.currentToolCallId # NoId THEN Thrown(s)
             ELSE RefusedToolCalls(s, Tail(calls))

RefusedAnnotations(s, delta) ==
    IF delta.annotations = Null \/ s.hasProcessedAnnotations THEN Passed(s)
    ELSE LET marked == [s EXCEPT !.hasProcessedAnnotations = TRUE]
         IN  IF marked.isToolUse \/ marked.hasStartedTextBlock
                \/ marked.hasStartedThinkingBlock \/ delta.annotations[1] > 0
             THEN Thrown(marked) ELSE Passed(marked)

RefusedDelta(s, delta) ==
    LET reasoned == RefusedReasoning(s, delta)
        body == IF reasoned.thrown THEN reasoned
                ELSE IF Len(delta.tool_calls) > 0
                THEN (IF reasoned.s.hasStartedThinkingBlock THEN Thrown(reasoned.s)
                      ELSE RefusedToolCalls(reasoned.s, delta.tool_calls))
                ELSE IF delta.content # "" THEN Thrown(reasoned.s)
                ELSE reasoned
    IN  IF body.thrown THEN body.s ELSE RefusedAnnotations(body.s, delta).s

processStreamDelta(s, delta) ==
    IF s.cancelled THEN RefusedDelta(s, delta) ELSE DeliveredDelta(s, delta)


RECURSIVE SplitLines(_)
\* bytes.split('\n')
SplitLines(bytes) ==
    IF bytes = <<>> THEN << <<>> >>
    ELSE LET rest == SplitLines(Tail(bytes))
         IN  IF Head(bytes) = "\n" THEN << <<>> >> \o rest
             ELSE << <<Head(bytes)>> \o Head(rest) >> \o Tail(rest)

Front(s) == SubSeq(s, 1, Len(s) - 1)

\* value || total
OrElse(value, total) ==
    IF value = Undefined THEN total ELSE IF Val(value) = 0 THEN total ELSE Val(value)

ExtractUsage(s, usage) ==
    [s EXCEPT !.totalInputTokens = OrElse(usage.prompt_tokens, @),
              !.totalOutputTokens = OrElse(usage.completion_tokens, @),
              !.totalReasoningTokens = OrElse(usage.reasoning_tokens, @),
              !.totalCacheReadTokens = OrElse(usage.cached_tokens, @),
              !.actualCost = IF usage.cost # Undefined THEN usage.cost ELSE @]

IsJson(data) == Len(data) = 3 /\ data[1] = "{" /\ data[3] = "}" /\ data[2] \in JsonNames

\* mutant: a payload that fails to parse ends the translation
DataLineParseErrorFatal(s, line, atEnd) ==
    IF line = <<>> THEN s
    ELSE IF Head(line) # "data: " THEN s
    ELSE IF Tail(line) = <<"[DONE]">> THEN s
    ELSE IF ~IsJson(Tail(line)) THEN [s EXCEPT !.cancelled = TRUE]
    ELSE LET parsed == Parsed(Tail(line)[2])
         IN  IF atEnd
             THEN LET handled == IF parsed.delta # Null
                                 THEN processStreamDelta(s, parsed.delta[1]) ELSE s
                  IN  IF parsed.usage # Null THEN ExtractUsage(handled, parsed.usage[1])
                      ELSE handled
             ELSE LET counted == IF parsed.usage # Null THEN ExtractUsage(s, parsed.usage[1])
                                 ELSE s
                  IN  IF parsed.delta # Null THEN processStreamDelta(counted, parsed.delta[1])
                      ELSE counted

\* one line of the body; atEnd tells the loop's lines from those left at close
DataLine(s, line, atEnd) ==
    IF line = <<>> THEN s
    ELSE IF Head(line) # "data: " THEN s
    ELSE IF Tail(line) = <<"[DONE]">> THEN s
    ELSE IF ~IsJson(Tail(line)) THEN s
    ELSE LET parsed == Parsed(Tail(line)[2])
         IN  IF atEnd
             THEN LET handled == IF parsed.delta # Null
                                 THEN processStreamDelta(s, parsed.delta[1]) ELSE s
                  IN  IF parsed.usage # Null THEN ExtractUsage(handled, parsed.usage[1])
                      ELSE handled
             ELSE LET counted == IF parsed.usage # Null THEN ExtractUsage(s, parsed.usage[1])
                                 ELSE s
                  IN  IF parsed.delta # Null THEN processStreamDelta(counted, parsed.delta[1])
                      ELSE counted

RECURSIVE DataLines(_, _, _)
DataLines(s, lines, atEnd) ==
    IF lines = <<>> THEN s
    ELSE DataLines(DataLine(s, Head(lines), atEnd), Tail(lines), atEnd)

\* mutant: the incomplete last line is dropped
KeepNothing(lines) == <<>>

\* buffer = lines.pop() || ''
KeepIncompleteLine(lines) == Last(lines)

\* the loop body for one chunk the reader returns
ReadChunkStep(s, chunk) ==
    LET lines == SplitLines(s.buffer \o chunk)
    IN  [DataLines(s, Front(lines), FALSE) EXCEPT !.buffer = KeepIncompleteLine(lines)]

\* the loop body when the reader reports done
ReadDoneStep(s) ==
    IF s.buffer # <<>> THEN DataLines(s, SplitLines(s.buffer), TRUE) ELSE s

CloseLastBlock(s) ==
    IF s.isToolUse \/ s.hasStartedTextBlock \/ s.hasStartedThinkingBlock
    THEN StopCurrent(s) ELSE s

\* mutant: the stop reason is always end_turn
FinalEventsEndTurn(s, usage) ==
    enqueueSSE(enqueueSSE(s, MessageDelta("end_turn", usage)), MessageStop)

\* mutant: message_stop is written before message_delta
FinalEventsSwapped(s, usage) ==
    enqueueSSE(enqueueSSE(s, MessageStop),
               MessageDelta(IF s.isToolUse THEN "tool_use" ELSE "end_turn", usage))

\* mutant: the stream is closed without message_stop
FinalEventsWithoutStop(s, usage) ==
    enqueueSSE(s, MessageDelta(IF s.isToolUse THEN "tool_use" ELSE "end_turn", usage))

\* message_delta and message_stop
FinalEvents(s, usage) ==
    enqueueSSE(enqueueSSE(s, MessageDelta(IF s.isToolUse THEN "tool_use" ELSE "end_turn",
                                          usage)),
               MessageStop)

\* whether calculateStreamUsage goes to the network
StreamFetches(s, cache, t) ==
    /\ s.actualCost # Null
    /\ Val(s.actualCost) > 0
    /\ getCachedModelPricing(cache, t) = Null

StreamUsage(s, cache, t, fetched) ==
    calculateStreamUsage(s.totalInputTokens, s.totalOutputTokens, s.totalCacheReadTokens,
                         s.actualCost, s.totalReasoningTokens, cache, t, fetched)


(***************************************************************************)
(* The billing engine as a state machine: a usage object arrives with the  *)
(* TTL mode of its request, computeUsageMetrics resolves the rates (which  *)
(* may fetch the catalog and replace the cache) and returns the result.    *)
(***************************************************************************)
PricingTest == [prompt |-> Num(20), completion |-> Num(40),
                input_cache_read |-> Undefined, input_cache_write |-> Undefined]
PricingFull == [prompt |-> Num(20), completion |-> Num(40),
                input_cache_read |-> Num(2), input_cache_write |-> Num(25)]
PricingFree == [prompt |-> Num(0), completion |-> Num(40),
                input_cache_read |-> Undefined, input_cache_write |-> Undefined]

\* what a fetch of the catalog can come to: a failure, or a table that
\* lists the model with some rates or does not list it
FetchFailed == [ok |-> FALSE, data |-> Null]
Fetched(data) == [ok |-> TRUE, data |-> data]
FetchOutcomes == {FetchFailed, Fetched(Null), Fetched(<<PricingTest>>),
                  Fetched(<<PricingFull>>), Fetched(<<PricingFree>>)}

CacheAt(data, t) == <<[data |-> data, timestamp |-> t]>>

TokenInputs == {Undefined} \cup {Num(n) : n \in -1..MaxTok}
CostInputs == {Undefined} \cup {Num(30 * k) : k \in -1..MaxCostSteps}
UsageInputs ==
    [prompt_tokens : TokenInputs,
     completion_tokens : {Num(0), Num(1)},
     reasoning_tokens : {Undefined, Num(1)},
     cached_tokens : {Undefined, Num(1), Num(MaxTok + 1)},
     cost : CostInputs,
     cache_creation_input_tokens : {Undefined, Num(1), Num(MaxTok + 2)},
     cache_creation : {Null,
                       <<[ephemeral_5m_input_tokens |-> Num(1),
                          ephemeral_1h_input_tokens |-> Num(2)]>>,
                       <<[ephemeral_5m_input_tokens |-> Num(-1),
                          ephemeral_1h_input_tokens |-> Undefined]>>,
                       <<[ephemeral_5m_input_tokens |-> Undefined,
                          ephemeral_1h_input_tokens |-> Undefined]>>}]


TtlModes == {"ephemeral_5m", "ephemeral_1h", "mixed"}

\* a call of resolvePricing: where it is ("idle" before the call, "fetching"
\* at the await of getModelPricing, "done"), the Date.now() it read, the
\* outcome of its fetch if it made one, and the pricing it returned
IdleLookup == [pc |-> "idle", at |-> 0, got |-> Null, pricing |-> Null]
NoLookups == [p \in 1..MaxLookups |-> IdleLookup]
NoUsage == [usage |-> Null, ttlMode |-> "ephemeral_5m"]

\* no completion has come back from the upstream
NoResponse == [completion |-> Null, result |-> Null]

\* the parts of the gateway a specification leaves at rest
RequestIdle ==
    /\ reqPhase = "done"
    /\ reqBody = [messages |-> <<>>, system |-> 0, claude |-> FALSE]
    /\ reqFlat = <<>>
    /\ reqOut = <<>>
    /\ reqMeta = Null
    /\ reqResponse = Null
    /\ upstreamSent = <<>>
    /\ resp = NoResponse

BillingIdle ==
    /\ billPhase = "idle"
    /\ billIn = NoUsage
    /\ billOut = Null
    /\ lookups = NoLookups

StreamIdle ==
    /\ strPhase = "idle"
    /\ upstream = <<>>
    /\ upPos = 0
    /\ sawPartialLine = FALSE
    /\ outRead = 0
    /\ readerLocked = FALSE
    /\ stream = StreamStart

InitBilling ==
    /\ fetchLog = <<>>
    /\ billPhase = "idle"
    /\ billIn = NoUsage
    /\ billOut = Null
    /\ lookups = NoLookups
    /\ \E started \in {0, CACHE_DURATION} :
        /\ now = started
        /\ pricingCache \in
            IF started = 0 THEN {Null, CacheAt(<<PricingTest>>, 0), CacheAt(<<PricingFull>>, 0)}
            ELSE {CacheAt(<<PricingTest>>, 0)}
    /\ RequestIdle
    /\ StreamIdle

\* a response's usage object reaches the billing engine
UsageArrives ==
    /\ billPhase = "idle"
    /\ \E usage \in UsageInputs, ttlMode \in TtlModes :
        billIn' = [usage |-> <<usage>>, ttlMode |-> ttlMode]
    /\ billPhase' = "called"
    /\ UNCHANGED <<now, pricingCache, fetchLog, billOut, lookups, reqVars, strVars>>

\* computeUsageMetrics(options), the rates served by the cache
ComputeFromCache ==
    /\ billPhase = "called"
    /\ getCachedModelPricing(pricingCache, now) # Null
    /\ LET res == resolvePricing(pricingCache, now, FetchFailed)
       IN  /\ billOut' = <<computeUsageMetrics(billIn.usage[1], billIn.ttlMode, res)>>
           /\ pricingCache' = res.cache
    /\ billPhase' = "done"
    /\ UNCHANGED <<now, fetchLog, billIn, lookups, reqVars, strVars>>

\* computeUsageMetrics(options), the rates fetched from the catalog
ComputeWithFetch ==
    /\ billPhase = "called"
    /\ getCachedModelPricing(pricingCache, now) = Null
    /\ \E fetched \in FetchOutcomes :
        LET res == resolvePricing(pricingCache, now, fetched)
        IN  /\ billOut' = <<computeUsageMetrics(billIn.usage[1], billIn.ttlMode, res)>>
            /\ pricingCache' = res.cache
            /\ fetchLog' = Append(fetchLog, fetched)
    /\ billPhase' = "done"
    /\ UNCHANGED <<now, billIn, lookups, reqVars, strVars>>

NextBilling == UsageArrives \/ ComputeFromCache \/ ComputeWithFetch

SpecBilling == InitBilling /\ [][NextBilling]_vars

(***************************************************************************)
(* The pricing cache under concurrent requests: each caller runs           *)
(* resolvePricing, which answers from the table or goes to the catalog;    *)
(* the callers interleave at the await and the clock runs on meanwhile.    *)
(***************************************************************************)
CatalogOutcomes == {FetchFailed, Fetched(Null), Fetched(<<PricingTest>>),
                    Fetched(<<PricingFull>>)}

InitPricing ==
    /\ now = 0
    /\ pricingCache \in {Null, CacheAt(<<PricingTest>>, 0)}
    /\ fetchLog = <<>>
    /\ billPhase = "idle"
    /\ billIn = NoUsage
    /\ billOut = Null
    /\ lookups = NoLookups
    /\ RequestIdle
    /\ StreamIdle

\* Date.now() moves on
Tick ==
    /\ now < MaxNow
    /\ now' = now + 1
    /\ UNCHANGED <<pricingCache, fetchLog, billVars, reqVars, strVars>>

\* mutant: a table that exists is filled in place and keeps its timestamp
RefreshedInPlace(cache, t, fetched) ==
    IF fetched.ok
    THEN [pricing |-> fetched.data,
          cache |-> IF cache = Null THEN CacheAt(fetched.data, t)
                    ELSE CacheAt(fetched.data, cache[1].timestamp)]
    ELSE [pricing |-> IF cache # Null THEN cache[1].data ELSE Null, cache |-> cache]

\* getModelPricing after its await: the new table is built and assigned, or
\* the catch clause answers from whatever table is held
Refreshed(cache, t, fetched) ==
    IF fetched.ok
    THEN [pricing |-> fetched.data, cache |-> CacheAt(fetched.data, t)]
    ELSE [pricing |-> IF cache # Null THEN cache[1].data ELSE Null, cache |-> cache]

\* resolvePricing up to the await: the table answers, or the fetch is sent
LookupStarts(p) ==
    /\ lookups[p].pc = "idle"
    /\ \A q \in 1..(p - 1) : lookups[q].pc # "idle"
    /\ lookups' =
           [lookups EXCEPT ![p] =
               IF pricingCache # Null /\ (now - pricingCache[1].timestamp) < CACHE_DURATION
               THEN [pc |-> "done", at |-> now, got |-> Null,
                     pricing |-> getCachedModelPricing(pricingCache, now)]
               ELSE [pc |-> "fetching", at |-> now, got |-> Null, pricing |-> Null]]
    /\ UNCHANGED <<now, pricingCache, fetchLog, billPhase, billIn, billOut, reqVars, strVars>>

\* the fetch of a caller resolves or rejects and getModelPricing returns
FetchReturns(p) ==
    /\ lookups[p].pc = "fetching"
    /\ \E fetched \in CatalogOutcomes :
        LET res == Refreshed(pricingCache, lookups[p].at, fetched)
        IN  /\ pricingCache' = res.cache
            /\ fetchLog' = Append(fetchLog, fetched)
            /\ lookups' = [lookups EXCEPT ![p] = [@ EXCEPT !.pc = "done",
                                                           !.got = <<fetched>>,
                                                           !.pricing = res.pricing]]
    /\ UNCHANGED <<now, billPhase, billIn, billOut, reqVars, strVars>>

NextPricing ==
    \/ Tick
    \/ \E p \in 1..MaxLookups : LookupStarts(p)
    \/ \E p \in 1..MaxLookups : FetchReturns(p)

SpecPricing == InitPricing /\ [][NextPricing]_vars

(***************************************************************************)
(* The client composes a request (messages of string or block content),    *)
(* then the dispatcher hands it to the translator.                         *)
(***************************************************************************)
TotalBlocks(messages) ==
    Len(Concat([i \in 1..Len(messages) |-> messages[i].blocks]))

InitRequest ==
    /\ now = 0
    /\ pricingCache = Null
    /\ fetchLog = <<>>
    /\ BillingIdle
    /\ StreamIdle
    /\ reqPhase = "building"
    /\ reqBody = [messages |-> <<>>, system |-> 0, claude |-> FALSE]
    /\ reqFlat = <<>>
    /\ reqOut = <<>>
    /\ reqMeta = Null
    /\ reqResponse = Null
    /\ upstreamSent = <<>>
    /\ resp = NoResponse

AddMessage ==
    /\ reqPhase = "building"
    /\ Len(reqBody.messages) < MaxMsgs
    /\ \E role \in {"user", "assistant"}, isArray \in BOOLEAN :
        reqBody' = [reqBody EXCEPT !.messages =
                        Append(@, [role |-> role, isArray |-> isArray, blocks |-> <<>>])]
    /\ UNCHANGED <<reqPhase, reqFlat, reqOut, reqMeta, reqResponse, upstreamSent, resp, now, pricingCache, fetchLog, billVars, strVars>>

AddBlock ==
    /\ reqPhase = "building"
    /\ reqBody.messages # <<>>
    /\ Last(reqBody.messages).isArray
    /\ TotalBlocks(reqBody.messages) < MaxBlocks
    /\ \E b \in BlockKinds(Last(reqBody.messages).role) :
        reqBody' = [reqBody EXCEPT !.messages[Len(reqBody.messages)].blocks = Append(@, b)]
    /\ UNCHANGED <<reqPhase, reqFlat, reqOut, reqMeta, reqResponse, upstreamSent, resp, now, pricingCache, fetchLog, billVars, strVars>>

FormatRequest ==
    /\ reqPhase = "building"
    /\ reqPhase' = "done"
    /\ \E claude \in BOOLEAN :
        reqBody' = [reqBody EXCEPT !.system = IF claude THEN 1 ELSE 0, !.claude = claude]
    /\ reqFlat' = FlattenMessages(reqBody'.messages)
    /\ reqOut' = formatAnthropicToOpenAI(reqBody')
    /\ UNCHANGED <<reqMeta, reqResponse, upstreamSent, resp, now, pricingCache, fetchLog, billVars, strVars>>

NextRequest == AddMessage \/ AddBlock \/ FormatRequest

SpecRequest == InitRequest /\ [][NextRequest]_vars

(***************************************************************************)
(* The dispatcher: a client posts a body to /v1/messages whose messages    *)
(* carry images and cache_control annotations; the body is translated and  *)
(* posted upstream, or answered at once when the translator throws.        *)
(***************************************************************************)
Source(type, url, media_type, data) ==
    [type |-> type, url |-> url, media_type |-> media_type, data |-> data]

ImageSources ==
    {Source("url", "u", "", ""),
     Source("base64", "", "image/png", "d"),
     Source("base64", "", "image/bmp", "d"),
     Source("file", "", "", ""),
     Source("s3", "", "", "")}

Controls ==
    {Undefined,
     CacheControl("ephemeral", Undefined),
     CacheControl("ephemeral", TtlString("1h")),
     CacheControl("ephemeral", TtlString(" 1H ")),
     CacheControl("ephemeral", TtlString("5m")),
     CacheControl("ephemeral", TtlNumber(7200)),
     CacheControl("persistent", TtlString("1h"))}

Parts == {AnnotatedText(c) : c \in Controls} \cup {ImageBlock(src) : src \in ImageSources}

\* body.system: no item, or one item with an annotation
SystemInputs ==
    {[claude |-> FALSE, controls |-> <<>>],
     [claude |-> TRUE, controls |-> <<CacheControl("ephemeral", TtlString("1h"))>>]}

InitDispatch ==
    /\ now = 0
    /\ pricingCache = Null
    /\ fetchLog = <<>>
    /\ BillingIdle
    /\ StreamIdle
    /\ reqPhase = "building"
    /\ \E sys \in SystemInputs :
        reqBody = [messages |-> <<>>, system |-> Len(sys.controls), claude |-> sys.claude,
                   systemControl |-> sys.controls]
    /\ reqFlat = <<>>
    /\ reqOut = <<>>
    /\ reqMeta = Null
    /\ reqResponse = Null
    /\ upstreamSent = <<>>
    /\ resp = NoResponse

AddInbound ==
    /\ reqPhase = "building"
    /\ Len(reqBody.messages) < MaxInbound
    /\ \E role \in {"user", "assistant"} :
        reqBody' = [reqBody EXCEPT !.messages =
                        Append(@, [role |-> role, isArray |-> TRUE, blocks |-> <<>>])]
    /\ UNCHANGED <<reqPhase, reqFlat, reqOut, reqMeta, reqResponse, upstreamSent, resp, now,
                   pricingCache, fetchLog, billVars, strVars>>

AddPart ==
    /\ reqPhase = "building"
    /\ reqBody.messages # <<>>
    /\ TotalBlocks(reqBody.messages) < MaxParts
    /\ \E part \in Parts :
        reqBody' = [reqBody EXCEPT !.messages[Len(reqBody.messages)].blocks = Append(@, part)]
    /\ UNCHANGED <<reqPhase, reqFlat, reqOut, reqMeta, reqResponse, upstreamSent, resp, now,
                   pricingCache, fetchLog, billVars, strVars>>

\* mutant: the error is answered as a failure of the gateway
ErrorResponseAsServerError(err) ==
    [status |-> 500, from |-> "dispatcher",
     error |-> <<[message |-> err.message, type |-> "invalid_request_error"]>>]

\* the Response of the catch clause
ErrorResponse(err) ==
    [status |-> 400, from |-> "dispatcher",
     error |-> <<[message |-> err.message, type |-> "invalid_request_error"]>>]

\* POST /v1/messages up to the upstream fetch: request.json(), the
\* translation, then the catch clause or the post to /chat/completions
Dispatch ==
    /\ reqPhase = "building"
    /\ \E parses \in BOOLEAN :
        LET thrown == IF ~parses
                      THEN <<[name |-> "SyntaxError", status |-> 0,
                              message |-> "Unexpected end of JSON input"]>>
                      ELSE formatAnthropicToOpenAIThrows(reqBody)
        IN  IF thrown # Null
            THEN /\ reqResponse' = <<ErrorResponse(thrown[1])>>
                 /\ reqPhase' = "answered"
                 /\ UNCHANGED <<reqFlat, reqOut, reqMeta, upstreamSent>>
            ELSE /\ reqFlat' = FlattenMessages(reqBody.messages)
                 /\ reqOut' = formatAnthropicToOpenAI(reqBody)
                 /\ reqMeta' = <<collectCacheControlMetadata(reqBody)>>
                 /\ upstreamSent' = Append(upstreamSent, reqOut')
                 /\ reqPhase' = "sent"
                 /\ UNCHANGED reqResponse
    /\ UNCHANGED <<reqBody, resp, now, pricingCache, fetchLog, billVars, strVars>>

\* the upstream answers: its failure is passed on, its success is translated
UpstreamAnswers ==
    /\ reqPhase = "sent"
    /\ \E status \in {200, 429} :
        reqResponse' = <<[status |-> status, from |-> "upstream", error |-> Null]>>
    /\ reqPhase' = "answered"
    /\ UNCHANGED <<reqBody, reqFlat, reqOut, reqMeta, upstreamSent, resp, now, pricingCache,
                   fetchLog, billVars, strVars>>

NextDispatch == AddInbound \/ AddPart \/ Dispatch \/ UpstreamAnswers

SpecDispatch == InitDispatch /\ [][NextDispatch]_vars

(***************************************************************************)
(* validateOpenAIToolCalls on its own: it is handed any list of OpenAI     *)
(* messages, not only the lists that the flattening of a request gives.    *)
(***************************************************************************)
OpenAIMessages ==
    {OpenAIMessage("user", StringContent, <<>>, NoId)}
    \cup {OpenAIMessage("assistant", content, calls, NoId) :
              content \in {NullContent, StringContent},
              calls \in {<<>>, <<"a", "b">>} \cup {<<t>> : t \in ToolIds}}
    \cup {OpenAIMessage("tool", StringContent, <<>>, t) : t \in ToolIds}

InitValidate ==
    /\ now = 0
    /\ pricingCache = Null
    /\ fetchLog = <<>>
    /\ BillingIdle
    /\ StreamIdle
    /\ reqPhase = "building"
    /\ reqBody = [messages |-> <<>>, system |-> 0, claude |-> FALSE]
    /\ reqFlat = <<>>
    /\ reqOut = <<>>
    /\ reqMeta = Null
    /\ reqResponse = Null
    /\ upstreamSent = <<>>
    /\ resp = NoResponse

\* the list handed to validateOpenAIToolCalls has one more message
AddOpenAIMessage ==
    /\ reqPhase = "building"
    /\ Len(reqFlat) < MaxOpenAI
    /\ \E m \in OpenAIMessages :
        reqFlat' = Append(reqFlat, [m EXCEPT !.uid = Len(reqFlat) + 1])
    /\ UNCHANGED <<reqPhase, reqBody, reqOut, reqMeta, reqResponse, upstreamSent, resp, now,
                   pricingCache, fetchLog, billVars, strVars>>

\* validateOpenAIToolCalls(openAIMessages)
Validate ==
    /\ reqPhase = "building"
    /\ reqOut' = validateOpenAIToolCalls(reqFlat)
    /\ reqPhase' = "done"
    /\ UNCHANGED <<reqBody, reqFlat, reqMeta, reqResponse, upstreamSent, resp, now,
                   pricingCache, fetchLog, billVars, strVars>>

NextValidate == AddOpenAIMessage \/ Validate

SpecValidate == InitValidate /\ [][NextValidate]_vars

(***************************************************************************)
(* Response translator (formatOpenAIToAnthropic) for a response that is    *)
(* not streamed.  The message of the completion is [annotations,           *)
(* reasoning_details, reasoning, content, tool_calls]: annotations is      *)
(* Undefined or <<how many>>, reasoning_details and tool_calls Undefined   *)
(* or <<the array>>, reasoning and content a string.  A reasoning entry is *)
(* [encrypted, type, text], text Undefined or <<the string>>; a tool call  *)
(* is [id, arguments], arguments Undefined, "json" or a text that          *)
(* JSON.parse rejects.                                                     *)
(***************************************************************************)
ReasoningEntry(encrypted, type, text) == [encrypted |-> encrypted, type |-> type, text |-> text]
CompletionToolCall(id, arguments) == [id |-> id, arguments |-> arguments]

ContentBlock(type) == [type |-> type, text |-> "", id |-> NoId, input |-> ""]

\* the blocks pushed for message.annotations
AnnotationBlocks(message) ==
    IF message.annotations # Undefined
    THEN <<ContentBlock("server_tool_use"), ContentBlock("web_search_tool_result")>>
    ELSE <<>>

\* the block pushed for one entry of reasoning_details, if any
ThinkingBlockOf(item) ==
    IF item.encrypted \/ item.type = "redacted" THEN <<ContentBlock("redacted_thinking")>>
    ELSE IF item.text # Undefined
    THEN <<[ContentBlock("thinking") EXCEPT !.text = item.text[1]]>>
    ELSE <<>>

\* the blocks pushed for reasoning_details, or for the reasoning string
ThinkingBlocks(message) ==
    IF message.reasoning_details # Undefined
    THEN LET rd == message.reasoning_details[1]
         IN  Concat([i \in 1..Len(rd) |-> ThinkingBlockOf(rd[i])])
    ELSE IF message.reasoning # ""
    THEN <<[ContentBlock("thinking") EXCEPT !.text = message.reasoning]>>
    ELSE <<>>

TextBlocks(message) ==
    IF message.content # ""
    THEN <<[ContentBlock("text") EXCEPT !.text = message.content]>>
    ELSE <<>>

\* mutant: a tool call whose arguments do not parse is left out
ToolUsesParsedOnly(message) ==
    IF message.tool_calls = Undefined THEN <<>>
    ELSE LET calls == SelectSeq(message.tool_calls[1],
                                LAMBDA c : c.arguments \in {Undefined, "json"})
         IN  [i \in 1..Len(calls) |->
                 [ContentBlock("tool_use") EXCEPT
                     !.id = calls[i].id,
                     !.input = IF calls[i].arguments = "json" THEN "parsed" ELSE "{}"]]

\* toolUses: parsedInput is the parsed arguments, {} when there are none or
\* when JSON.parse throws
ToolUses(message) ==
    IF message.tool_calls = Undefined THEN <<>>
    ELSE LET calls == message.tool_calls[1]
         IN  [i \in 1..Len(calls) |->
                 [ContentBlock("tool_use") EXCEPT
                     !.id = calls[i].id,
                     !.input = IF calls[i].arguments = "json" THEN "parsed" ELSE "{}"]]

\* mutant: the text block is pushed after the tool_use blocks
ContentOfTextLast(message) ==
    AnnotationBlocks(message) \o ThinkingBlocks(message) \o ToolUses(message)
    \o TextBlocks(message)

\* the content array of the result
ContentOf(message) ==
    AnnotationBlocks(message) \o ThinkingBlocks(message) \o TextBlocks(message)
    \o ToolUses(message)

\* formatOpenAIToAnthropic, given what resolvePricing returned
formatOpenAIToAnthropic(completion, ttlMode, res) ==
    [type |-> "message",
     role |-> "assistant",
     content |-> ContentOf(completion.message),
     stop_reason |-> IF completion.finish_reason = "tool_calls" THEN "tool_use" ELSE "end_turn",
     usage |-> computeUsageMetrics(completion.usage, ttlMode, res).usage]

(***************************************************************************)
(* A completion comes back from the upstream (its message has any of the   *)
(* optional fields) and the dispatcher has it translated.                  *)
(***************************************************************************)
ReasoningEntries ==
    {ReasoningEntry(TRUE, "reasoning.encrypted", Undefined),
     ReasoningEntry(FALSE, "redacted", Undefined),
     ReasoningEntry(FALSE, "reasoning.text", <<"t1">>),
     ReasoningEntry(FALSE, "reasoning.text", <<"t2">>),
     ReasoningEntry(FALSE, "reasoning.summary", Undefined)}

CompletionToolCalls ==
    {CompletionToolCall("a", "json"), CompletionToolCall("b", "{bad"),
     CompletionToolCall("c", Undefined)}

CompletionUsage ==
    [NoUsageFields EXCEPT !.prompt_tokens = Num(2), !.completion_tokens = Num(1),
                          !.cost = Num(120)]

InitResponse ==
    /\ now = 0
    /\ pricingCache \in {Null, CacheAt(<<PricingTest>>, 0)}
    /\ fetchLog = <<>>
    /\ BillingIdle
    /\ StreamIdle
    /\ reqPhase = "sent"
    /\ reqBody = [messages |-> <<>>, system |-> 0, claude |-> FALSE]
    /\ reqFlat = <<>>
    /\ reqOut = <<>>
    /\ reqMeta = Null
    /\ reqResponse = Null
    /\ upstreamSent = <<>>
    /\ \E annotations \in {Undefined, <<1>>}, reasoning \in {"", "r"}, content \in {"", "c"},
          finish_reason \in {"stop", "tool_calls"} :
        resp = [completion |->
                    <<[message |-> [annotations |-> annotations,
                                    reasoning_details |-> Undefined,
                                    reasoning |-> reasoning,
                                    content |-> content,
                                    tool_calls |-> Undefined],
                       finish_reason |-> finish_reason,
                       usage |-> CompletionUsage]>>,
                result |-> Null]

\* the upstream's message has one more entry in reasoning_details
AddReasoningEntry ==
    /\ resp.result = Null
    /\ LET rd == resp.completion[1].message.reasoning_details
       IN  \/ /\ rd = Undefined
              /\ resp' = [resp EXCEPT !.completion[1].message.reasoning_details = << <<>> >>]
           \/ /\ rd # Undefined
              /\ Len(rd[1]) < MaxDetails
              /\ \E item \in ReasoningEntries :
                     resp' = [resp EXCEPT !.completion[1].message.reasoning_details[1] =
                                              Append(@, item)]
    /\ UNCHANGED <<reqPhase, reqBody, reqFlat, reqOut, reqMeta, reqResponse, upstreamSent, now,
                   pricingCache, fetchLog, billVars, strVars>>

\* the upstream's message has one more tool call
AddToolCall ==
    /\ resp.result = Null
    /\ LET calls == resp.completion[1].message.tool_calls
       IN  \/ /\ calls = Undefined
              /\ resp' = [resp EXCEPT !.completion[1].message.tool_calls = << <<>> >>]
           \/ /\ calls # Undefined
              /\ Len(calls[1]) < MaxCalls
              /\ \E call \in CompletionToolCalls :
                     resp' = [resp EXCEPT !.completion[1].message.tool_calls[1] =
                                              Append(@, call)]
    /\ UNCHANGED <<reqPhase, reqBody, reqFlat, reqOut, reqMeta, reqResponse, upstreamSent, now,
                   pricingCache, fetchLog, billVars, strVars>>

\* formatOpenAIToAnthropic(openaiData, model, options) and the Response
TranslateResponse ==
    /\ reqPhase = "sent"
    /\ resp.result = Null
    /\ \E fetched \in {FetchFailed, Fetched(<<PricingTest>>)} :
        LET res == resolvePricing(pricingCache, now, fetched)
        IN  /\ resp' = [resp EXCEPT !.result =
                            <<formatOpenAIToAnthropic(resp.completion[1], "ephemeral_5m", res)>>]
            /\ pricingCache' = res.cache
            /\ fetchLog' = IF getCachedModelPricing(pricingCache, now) = Null
                           THEN Append(fetchLog, fetched) ELSE fetchLog
    /\ reqResponse' = <<[status |-> 200, from |-> "dispatcher", error |-> Null]>>
    /\ reqPhase' = "answered"
    /\ UNCHANGED <<reqBody, reqFlat, reqOut, reqMeta, upstreamSent, now, billVars, strVars>>

NextResponse == AddReasoningEntry \/ AddToolCall \/ TranslateResponse

SpecResponse == InitResponse /\ [][NextResponse]_vars

(***************************************************************************)
(* One translated stream: the upstream body arrives in chunks cut          *)
(* anywhere, the reader reports done, the usage is computed (which may     *)
(* fetch the catalog) and the last events are written.                     *)
(***************************************************************************)
StreamFrames == {"text", "reasoning", "redacted", "toolA", "annotations", "usage1",
                 "bad", "[DONE]"}

Bodies(frames) ==
    UNION {{Concat([i \in 1..n |-> Frame(kinds[i])]) : kinds \in [1..n -> frames]} :
           n \in 0..MaxFrames}

\* a body whose last line the upstream left without its newline
RECURSIVE Unterminated(_)
Unterminated(bytes) ==
    IF bytes = <<>> THEN bytes
    ELSE IF Last(bytes) = "\n" THEN Unterminated(Front(bytes))
    ELSE bytes

InitStream ==
    /\ now = 0
    /\ pricingCache = Null
    /\ fetchLog = <<>>
    /\ BillingIdle
    /\ RequestIdle
    /\ strPhase = "reading"
    /\ \E bytes \in Bodies(StreamFrames) : upstream \in {bytes, Unterminated(bytes)}
    /\ upPos = 0
    /\ sawPartialLine = FALSE
    /\ outRead = 0
    /\ readerLocked = TRUE
    /\ stream = StreamStart

\* reader.read() returns a chunk
ReadChunk ==
    /\ strPhase = "reading"
    /\ upPos < Len(upstream)
    /\ \E n \in 1..(Len(upstream) - upPos) :
        /\ stream' = ReadChunkStep(stream, SubSeq(upstream, upPos + 1, upPos + n))
        /\ upPos' = upPos + n
    /\ sawPartialLine' = (sawPartialLine \/ stream'.buffer # <<>>)
    /\ UNCHANGED <<strPhase, upstream, outRead, readerLocked, now, pricingCache, fetchLog, billVars, reqVars>>

\* reader.read() reports done: the rest of the buffer, the lock, the open block
ReadDone ==
    /\ strPhase = "reading"
    /\ upPos = Len(upstream)
    /\ LET read == ReadDoneStep(stream)
       IN  IF read.cancelled
           THEN \* enqueueSSE throws on the closed stream: start() is rejected
                /\ stream' = read
                /\ strPhase' = IF read.isToolUse \/ read.hasStartedTextBlock
                                  \/ read.hasStartedThinkingBlock
                               THEN "errored" ELSE "finishing"
           ELSE /\ stream' = CloseLastBlock(read)
                /\ strPhase' = "finishing"
    /\ readerLocked' = FALSE
    /\ UNCHANGED <<upstream, upPos, sawPartialLine, outRead, now, pricingCache, fetchLog, billVars, reqVars>>

\* calculateStreamUsage returns: message_delta, message_stop, controller.close()
Finish ==
    /\ strPhase = "finishing"
    /\ \E fetched \in FetchOutcomes :
        LET computed == StreamUsage(stream, pricingCache, now, fetched)
        IN  /\ stream' = IF stream.cancelled THEN stream
                          ELSE FinalEvents(stream, computed.usage)
            /\ pricingCache' = computed.cache
            /\ fetchLog' = IF StreamFetches(stream, pricingCache, now)
                           THEN Append(fetchLog, fetched) ELSE fetchLog
    /\ strPhase' = IF stream.cancelled THEN "errored" ELSE "closed"
    /\ UNCHANGED <<upstream, upPos, sawPartialLine, outRead, readerLocked, now, billVars, reqVars>>

NextStream == ReadChunk \/ ReadDone \/ Finish

SpecStream == InitStream /\ [][NextStream]_vars

(***************************************************************************)
(* The same stream with the upstream deciding frame by frame what it sends *)
(* next: each chunk is one whole frame carrying any kind of delta, also    *)
(* deltas that carry several fields at once.                               *)
(***************************************************************************)
DeltaFrames == {"text", "reasoning", "redacted", "details", "toolA", "toolB", "args",
                "both", "annotations"}

InitDeltas ==
    /\ now = 0
    /\ pricingCache = Null
    /\ fetchLog = <<>>
    /\ BillingIdle
    /\ RequestIdle
    /\ strPhase = "reading"
    /\ upstream = <<>>
    /\ upPos = 0
    /\ sawPartialLine = FALSE
    /\ outRead = 0
    /\ readerLocked = TRUE
    /\ stream = StreamStart

\* reader.read() returns the next frame the upstream wrote
FrameArrives ==
    /\ strPhase = "reading"
    /\ Len(upstream) < MaxFrames * Len(Frame("text"))
    /\ \E kind \in DeltaFrames :
        /\ upstream' = upstream \o Frame(kind)
        /\ stream' = ReadChunkStep(stream, Frame(kind))
    /\ upPos' = Len(upstream')
    /\ UNCHANGED <<strPhase, sawPartialLine, outRead, readerLocked, now, pricingCache, fetchLog,
                   billVars, reqVars>>

NextDeltas == FrameArrives \/ ReadDone \/ Finish

SpecDeltas == InitDeltas /\ [][NextDeltas]_vars

\* The awaits of start(controller) resolve: reader.read() reports done once
\* the upstream has closed its body, and calculateStreamUsage returns
\* whether the catalog fetch succeeds or fails.
SpecDeltasLive ==
    /\ InitDeltas
    /\ [][NextDeltas]_vars
    /\ WF_vars(ReadDone)
    /\ WF_vars(Finish)

(***************************************************************************)
(* The same stream in a hostile setting: the upstream connection may fail  *)
(* under a read, the consumer may cancel, and the usage frames carry       *)
(* figures that do not add up.                                             *)
(***************************************************************************)
FaultFrames == {"text", "toolA", "usage1", "usage2", "usage3", "usage4", "[DONE]"}

InitStreamFaults ==
    /\ now = 0
    /\ pricingCache = Null
    /\ fetchLog = <<>>
    /\ BillingIdle
    /\ RequestIdle
    /\ strPhase = "reading"
    /\ upstream \in Bodies(FaultFrames)
    /\ upPos = 0
    /\ sawPartialLine = FALSE
    /\ outRead = 0
    /\ readerLocked = TRUE
    /\ stream = StreamStart

\* reader.read() rejects: the finally clause releases the lock, nothing
\* catches the error, start() is rejected and the stream is errored
ReadFails ==
    /\ strPhase = "reading"
    /\ readerLocked
    /\ readerLocked' = FALSE
    /\ strPhase' = "errored"
    /\ UNCHANGED <<upstream, upPos, sawPartialLine, outRead, stream, now, pricingCache, fetchLog,
                   billVars, reqVars>>

\* the consumer cancels the stream returned by streamOpenAIToAnthropic; the
\* underlying source has no cancel(), so nothing but the controller changes
Cancel ==
    /\ strPhase \in {"reading", "finishing"}
    /\ ~stream.cancelled
    /\ stream' = [stream EXCEPT !.cancelled = TRUE]
    /\ UNCHANGED <<strPhase, upstream, upPos, sawPartialLine, outRead, readerLocked, now,
                   pricingCache, fetchLog, billVars, reqVars>>

\* the queue of the ReadableStream: no strategy is given, so the default
\* one counts chunks against a high water mark of 1
HighWaterMark == 1

\* controller.desiredSize: what the queue still takes before it is full
desiredSize == HighWaterMark - (Len(stream.out) - outRead)

\* the consumer of the Response body reads one queued event; a cancelled
\* or errored stream has dropped its queue
ConsumerReads ==
    /\ strPhase # "errored"
    /\ ~stream.cancelled
    /\ outRead < Len(stream.out)
    /\ outRead' = outRead + 1
    /\ UNCHANGED <<strPhase, upstream, upPos, sawPartialLine, readerLocked, stream, now,
                   pricingCache, fetchLog, billVars, reqVars>>

NextStreamFaults == NextStream \/ ReadFails \/ Cancel \/ ConsumerReads

SpecStreamFaults == InitStreamFaults /\ [][NextStreamFaults]_vars


InToolRunAfter(messages, i, j) ==
    /\ i < j /\ j <= Len(messages)
    /\ \A k \in (i + 1)..j : messages[k].role = "tool"

\* C1: in the returned message list every tool call left in an assistant
\* message has a tool message with its id in the run of consecutive tool
\* messages directly after that assistant message.
C1_CallsHaveAdjacentResult ==
    reqPhase = "done" =>
        \A i \in 1..Len(reqOut) :
            reqOut[i].role = "assistant" =>
                \A c \in 1..Len(reqOut[i].tool_calls) :
                    \E j \in 1..Len(reqOut) :
                        /\ InToolRunAfter(reqOut, i, j)
                        /\ reqOut[j].tool_call_id = reqOut[i].tool_calls[c]

\* an assistant message lost one of two calls and kept the other
C1_Witness ==
    /\ reqPhase = "done"
    /\ \E i \in 1..Len(reqOut), f \in 1..Len(reqFlat) :
          /\ reqOut[i].role = "assistant" /\ reqOut[i].uid = f
          /\ Len(reqOut[i].tool_calls) = 1 /\ Len(reqFlat[f].tool_calls) = 2

\* C2: every tool message of the output is preceded, skipping only tool
\* messages, by an assistant message of the output whose remaining tool_calls
\* hold its tool_call_id.
C2_ResultsHaveAdjacentCall ==
    reqPhase = "done" =>
        \A j \in 1..Len(reqOut) :
            reqOut[j].role = "tool" =>
                \E i \in 1..Len(reqOut) :
                    /\ reqOut[i].role = "assistant"
                    /\ InToolRunAfter(reqOut, i, j)
                    /\ HasCall(reqOut[i], reqOut[j].tool_call_id)

\* one tool message was kept and another one dropped
C2_Witness ==
    /\ reqPhase = "done"
    /\ \E j \in 1..Len(reqOut) : reqOut[j].role = "tool"
    /\ \E f \in 1..Len(reqFlat) :
          /\ reqFlat[f].role = "tool"
          /\ \A j \in 1..Len(reqOut) : reqOut[j].uid # f \/ reqOut[j].role # "tool"

\* the calls of the flattened message f that have a tool message with their
\* id in the run directly after f, in their original order
MatchedCalls(f) ==
    SelectSeq(reqFlat[f].tool_calls,
              LAMBDA id : \E j \in 1..Len(reqFlat) :
                             InToolRunAfter(reqFlat, f, j) /\ reqFlat[j].tool_call_id = id)

\* the positions of the output that hold the flattened message f
OutputOf(f) == {i \in 1..Len(reqOut) : reqOut[i].role = "assistant" /\ reqOut[i].uid = f}

\* C3: an assistant message that had tool_calls is in the output once, with
\* exactly its matched calls in their order, when it has content or a matched
\* call, and is not in the output when it has neither.
C3_MatchedCallsOrOmitted ==
    reqPhase = "done" =>
        \A f \in 1..Len(reqFlat) :
            (reqFlat[f].role = "assistant" /\ Len(reqFlat[f].tool_calls) > 0) =>
                IF Truthy(reqFlat[f].content) \/ Len(MatchedCalls(f)) > 0
                THEN /\ Cardinality(OutputOf(f)) = 1
                     /\ \A i \in OutputOf(f) : reqOut[i].tool_calls = MatchedCalls(f)
                ELSE OutputOf(f) = {}

\* one assistant message with content lost its only call and stays without
\* calls, another one without content lost its only call and is omitted
C3_Witness ==
    /\ reqPhase = "done"
    /\ \E f \in 1..Len(reqFlat) :
          /\ reqFlat[f].role = "assistant" /\ Len(reqFlat[f].tool_calls) > 0
          /\ Truthy(reqFlat[f].content) /\ MatchedCalls(f) = <<>>
          /\ \E i \in OutputOf(f) : reqOut[i].tool_calls = <<>>
    /\ \E g \in 1..Len(reqFlat) :
          /\ reqFlat[g].role = "assistant" /\ Len(reqFlat[g].tool_calls) > 0
          /\ ~Truthy(reqFlat[g].content) /\ OutputOf(g) = {}

(***************************************************************************)
(* Streaming translator: the claims.                                       *)
(***************************************************************************)
ContentBlockEvents == {"content_block_start", "content_block_delta", "content_block_stop"}
Out == stream.out
Translating == strPhase # "idle"

\* C4: the events written are message_start first, then only
\* content_block_start / content_block_delta / content_block_stop events, and,
\* once the upstream body has ended, exactly one message_delta followed by
\* exactly one message_stop as the last two events; nothing is written after.
C4_EventOrder ==
    Translating =>
        /\ Out # <<>>
        /\ Out[1].type = "message_start"
        /\ IF strPhase = "closed"
           THEN /\ Len(Out) >= 3
                /\ Out[Len(Out)].type = "message_stop"
                /\ Out[Len(Out) - 1].type = "message_delta"
                /\ \A i \in 2..(Len(Out) - 2) : Out[i].type \in ContentBlockEvents
           ELSE \A i \in 2..Len(Out) : Out[i].type \in ContentBlockEvents

C4_Witness ==
    /\ strPhase = "closed"
    /\ \E i \in 1..Len(upstream) : upstream[i] = "[DONE]"
    /\ \E i, j \in 1..Len(Out) :
        /\ i < j
        /\ Out[i].type = "content_block_start" /\ Out[i].block = "thinking"
        /\ Out[j].type = "content_block_start" /\ Out[j].block = "tool_use"

\* the translation of a body the reader returns as one chunk
OneChunk(bytes) ==
    CloseLastBlock(ReadDoneStep(IF bytes = <<>> THEN StreamStart
                                ELSE ReadChunkStep(StreamStart, bytes)))

\* C5: however the bytes of the upstream body are cut into chunks, once the
\* body has ended the events written and the usage snapshot held are those of
\* the delivery of the same bytes as one chunk, and the final events,
\* message_delta.usage included, are those of the one-chunk delivery for the
\* same outcome of the pricing lookup.
C5_ChunkBoundaryIndependence ==
    /\ strPhase = "finishing" => stream = OneChunk(upstream)
    /\ strPhase = "closed" =>
        \E fetched \in FetchOutcomes :
            Out = FinalEvents(OneChunk(upstream),
                              StreamUsage(OneChunk(upstream), Null, 0, fetched).usage).out

C5_Witness ==
    /\ strPhase = "closed"
    /\ sawPartialLine
    /\ \E i \in 1..Len(Out) : Out[i].type = "content_block_delta"
    /\ Out[Len(Out) - 1].usage[1].cache_read_input_tokens > 0

\* C6: the index fields of the content_block_start, content_block_delta and
\* content_block_stop events never decrease in the order of emission.
C6_IndexNonDecreasing ==
    LET blocks == SelectSeq(Out, LAMBDA e : e.type \in ContentBlockEvents)
    IN  \A i \in 1..(Len(blocks) - 1) : blocks[i].index <= blocks[i + 1].index

C6_Witness ==
    /\ strPhase = "closed"
    /\ \E i, j, k \in 1..Len(Out) :
        /\ i < j /\ j < k
        /\ Out[i].type = "content_block_start" /\ Out[i].block = "text"
        /\ Out[j].type = "content_block_start" /\ Out[j].block = "redacted_thinking"
        /\ Out[k].type = "content_block_start" /\ Out[k].block = "tool_use"
        /\ Out[i].index < Out[j].index /\ Out[j].index < Out[k].index

\* C7: no event other than message_delta carries a usage field, message_start
\* in particular; usage reaches the client only in the one message_delta.
C7_UsageOnlyInMessageDelta ==
    \A i \in 1..Len(Out) : Out[i].type # "message_delta" => Out[i].usage = Null

\* the usage snapshot the translator holds when the body has ended
SnapshotUsage(s) ==
    [NoUsageFields EXCEPT !.prompt_tokens = Num(s.totalInputTokens),
                          !.completion_tokens = Num(s.totalOutputTokens),
                          !.reasoning_tokens = Num(s.totalReasoningTokens),
                          !.cached_tokens = Num(s.totalCacheReadTokens),
                          !.cost = s.actualCost]

\* C8: the token counts of the usage in the streaming message_delta are those
\* computeUsageMetrics returns for the final usage snapshot under the pricing
\* table the translator used (and no cache-control annotations).
C8_StreamUsageIsBillingUsage ==
    strPhase = "closed" =>
        LET streamed == Out[Len(Out) - 1].usage[1]
            billed == computeUsageMetrics(SnapshotUsage(stream), "ephemeral_5m",
                          resolvePricing(pricingCache, now, FetchFailed)).usage
        IN  /\ streamed.input_tokens = billed.input_tokens
            /\ streamed.output_tokens = billed.output_tokens
            /\ streamed.cache_read_input_tokens = billed.cache_read_input_tokens
            /\ streamed.cache_creation_input_tokens = billed.cache_creation_input_tokens

(***************************************************************************)
(* Billing engine: the claims.                                             *)
(***************************************************************************)
Computed == billPhase = "done"
Result == billOut[1]
UsageIn == billIn.usage[1]
Legs(costs) == costs.input + costs.output + costs.read + costs.write

\* C9: whenever the upstream usage carries a cost, the result reports that
\* cost (rounded) as costs.actual and costs.total equals costs.actual, in
\* each of the four sources of the write count.
C9_TotalIsActual ==
    (Computed /\ UsageIn.cost # Undefined) =>
        /\ Result.estimation.source \in
               {"upstream_detailed", "upstream_simple", "inferred", "unavailable"}
        /\ Result.costs.actual # Null
        /\ Result.costs.total = Val(Result.costs.actual)

C9_Witness ==
    /\ Computed
    /\ UsageIn.cost # Undefined
    /\ Result.estimation.source = "upstream_detailed"
    /\ Result.costs.write > 0
    /\ Result.costs.total # Legs(Result.costs)

\* C10: when the cache-write count is inferred from cost, the resulting
\* cache_creation_input_tokens is an integer from 0 to prompt_tokens, the
\* prompt token count as the engine reads it (missing or negative is 0).
C10_InferredWritesWithinPrompt ==
    (Computed /\ Result.estimation.source = "inferred") =>
        /\ Result.usage.cache_creation_input_tokens \in Nat
        /\ Result.usage.cache_creation_input_tokens
               <= normaliseTokens(UsageIn.prompt_tokens)

C10_Witness ==
    /\ Computed
    /\ Result.estimation.source = "inferred"
    /\ \E i \in 1..Len(Result.estimation.notes) :
           Result.estimation.notes[i] = "write_tokens_clamped"
    /\ Result.usage.cache_creation_input_tokens = MaxTok
    /\ UsageIn.prompt_tokens = Num(MaxTok)

\* C11: in every path that sets the write count (upstream breakdown,
\* upstream scalar, inferred, unavailable) cache_creation_input_tokens is at
\* most the prompt token count of the request.
C11_WritesWithinPrompt ==
    Computed =>
        Result.usage.cache_creation_input_tokens <= normaliseTokens(UsageIn.prompt_tokens)

DeltaUsages ==
    {Out[i].usage[1] : i \in {j \in 1..Len(Out) : Out[j].type = "message_delta"}}

\* C12: every token count of the usage sent to the client (here the
\* message_delta of a stream) is a non-negative integer, whatever the
\* upstream usage frames say.
C12_TokenCountsNonNegative ==
    \A usage \in DeltaUsages :
        /\ usage.input_tokens >= 0
        /\ usage.output_tokens >= 0
        /\ usage.reasoning_tokens >= 0
        /\ usage.cache_read_input_tokens >= 0
        /\ usage.cache_creation_input_tokens >= 0

(***************************************************************************)
(* Claims about the dispatcher, the images and the classifier.             *)
(***************************************************************************)
\* the image blocks of the body, in the order of the messages and the blocks
ImagesOf(body) ==
    Concat([i \in 1..Len(body.messages) |->
               SelectSeq(body.messages[i].blocks, LAMBDA b : b.type = "image")])

\* the URL a client expects for an image: the one it gave, or the data URL
\* of its base64 payload; no URL for any other source
ExpectedUrl(image) ==
    IF image.source = Source("url", "u", "", "") THEN <<"u">>
    ELSE IF image.source = Source("base64", "", "image/png", "d")
    THEN <<"data:", "image/png", ";base64,", "d">>
    ELSE <<"no url">>

HasBadImage(body) ==
    \E i \in 1..Len(ImagesOf(body)) : ExpectedUrl(ImagesOf(body)[i]) = <<"no url">>

\* the image_url blocks of a translated request, in order
ImageUrlsOf(messages) ==
    Concat([i \in 1..Len(messages) |->
               SelectSeq(messages[i].content.blocks, LAMBDA b : b.type = "image_url")])

ExplicitOneHour ==
    {CacheControl("ephemeral", TtlString("1h")), CacheControl("ephemeral", TtlString(" 1H ")),
     CacheControl("ephemeral", TtlNumber(7200))}
ExplicitFiveMinutes == {CacheControl("ephemeral", TtlString("5m"))}
WithoutTtl == {CacheControl("ephemeral", Undefined)}

ControlsOf(body) ==
    {body.systemControl[i] : i \in 1..Len(body.systemControl)}
    \cup UNION {{ControlOf(body.messages[i].blocks[j]) : j \in 1..Len(body.messages[i].blocks)} :
                i \in 1..Len(body.messages)}

C15_ClientErrorNotForwarded ==
    HasBadImage(reqBody) =>
        /\ upstreamSent = <<>>
        /\ reqPhase # "sent"
        /\ reqPhase = "answered" =>
              /\ reqResponse # Null
              /\ reqResponse[1].status = 400
              /\ reqResponse[1].error # Null
              /\ reqResponse[1].error[1].type = "invalid_request_error"
              /\ reqResponse[1].error[1].message # ""

C15_Witness ==
    /\ reqPhase = "answered"
    /\ HasBadImage(reqBody)
    /\ reqResponse[1].error[1].message = "Unsupported image media_type"
    /\ upstreamSent = <<>>

(***************************************************************************)
(* Claims about a stream whose upstream fails or whose consumer leaves.    *)
(***************************************************************************)
\* C16: when the upstream connection fails under a read, the translator
\* does not end without its last events: once start() is over after a
\* failed read, the output ends with message_delta and message_stop.
C16_FinalEventsAfterUpstreamFailure ==
    (strPhase = "errored" /\ ~stream.cancelled) =>
        /\ Len(Out) >= 3
        /\ Out[Len(Out) - 1].type = "message_delta"
        /\ Out[Len(Out)].type = "message_stop"

\* C17: once the consumer has cancelled the translated stream, the
\* translator takes no further bytes from the upstream reader.
C17_NoReadAfterCancel ==
    [][(stream.cancelled /\ upPos < Len(upstream)) => upPos' = upPos]_vars

(***************************************************************************)
(* Claims about the billing engine, continued.                             *)
(***************************************************************************)
NoCreationFigures(usage) ==
    /\ usage.cache_creation_input_tokens = Undefined
    /\ usage.cache_creation = Null

\* C18: when the refresh of the price table fails, the computation ends
\* after that single fetch and, the upstream giving no cache-creation
\* figures, reports source "unavailable" and no written tokens, with or
\* without an expired table in the cache.
C18_FailedFetchIsUnavailable ==
    (Computed /\ fetchLog # <<>> /\ Last(fetchLog) = FetchFailed
        /\ NoCreationFigures(UsageIn)) =>
        /\ Len(fetchLog) = 1
        /\ Result.estimation.source = "unavailable"
        /\ Result.usage.cache_creation_input_tokens = 0

\* a leg of the upstream breakdown as a token count: absent is 0, negative is 0
LegTokens(leg) == IF leg = Undefined THEN 0 ELSE IF leg[1] < 0 THEN 0 ELSE leg[1]

CarriesBreakdown(usage) ==
    /\ usage.cache_creation # Null
    /\ \/ usage.cache_creation[1].ephemeral_5m_input_tokens # Undefined
       \/ usage.cache_creation[1].ephemeral_1h_input_tokens # Undefined

\* C19: when the upstream usage carries a cache_creation breakdown (one leg
\* at least), the source is upstream_detailed whatever the cost, the scalar
\* count and the TTL mode, the published breakdown holds the two upstream
\* legs (each clamped to >= 0) and cache_creation_input_tokens is their sum.
C19_UpstreamBreakdownEchoed ==
    (Computed /\ CarriesBreakdown(UsageIn)) =>
        LET five == LegTokens(UsageIn.cache_creation[1].ephemeral_5m_input_tokens)
            one == LegTokens(UsageIn.cache_creation[1].ephemeral_1h_input_tokens)
        IN  /\ Result.estimation.source = "upstream_detailed"
            /\ Result.usage.cache_creation # Null
            /\ Result.usage.cache_creation[1].ephemeral_5m_input_tokens = five
            /\ Result.usage.cache_creation[1].ephemeral_1h_input_tokens = one
            /\ Result.usage.cache_creation_input_tokens = five + one

C19_Witness ==
    /\ Computed
    /\ CarriesBreakdown(UsageIn)
    /\ UsageIn.cache_creation_input_tokens = Num(1)
    /\ UsageIn.cost # Undefined
    /\ billIn.ttlMode = "mixed"
    /\ Result.usage.cache_creation = Breakdown(1, 2)
    /\ Result.usage.cache_creation_input_tokens = 3

\* the rates of the table the computation used, in money units per token
RatesUsed == pricingCache[1].data[1]

\* round(residual / writeRate), all amounts in fortieths of a money unit so
\* that promptRate * 0.1, * 1.25 and * 2.0 are whole: the number n with
\* n - 1/2 <= residual / writeRate < n + 1/2
InferredWrites(prompt, completion, cacheRead, cost, promptRate, completionRate, ttlMode) ==
    LET input == IF prompt > cacheRead THEN prompt - cacheRead ELSE 0
        known == 40 * (input * promptRate + completion * completionRate)
                 + 4 * cacheRead * promptRate
        residual == IF 40 * cost > known THEN 40 * cost - known ELSE 0
        writeRate == IF ttlMode = "ephemeral_1h" THEN 80 * promptRate ELSE 50 * promptRate
        rounded == CHOOSE n \in 0..(residual + 1) :
                       /\ 2 * n * writeRate <= 2 * residual + writeRate
                       /\ 2 * residual + writeRate < 2 * (n + 1) * writeRate
    IN  IF rounded > prompt THEN prompt ELSE rounded

\* the two cases the specification works out, at prompt 1e-6 $ and
\* completion 2e-6 $ per token (20 and 40 money units)
ExampleWrites(prompt, completion, cacheRead, cost, ttlMode) ==
    computeUsageMetrics(
        [NoUsageFields EXCEPT !.prompt_tokens = Num(prompt),
                              !.completion_tokens = Num(completion),
                              !.cached_tokens = Num(cacheRead),
                              !.cost = Num(cost)],
        ttlMode,
        resolvePricing(CacheAt(<<PricingTest>>, 0), 0, FetchFailed))

\* C20: in the inferred path cache_creation_input_tokens is
\* round(max(0, cost - known) / writeRate) clamped to [0, prompt_tokens],
\* known = input * promptRate + output * completionRate
\*         + cacheRead * promptRate * 0.1,
\* writeRate = promptRate * 2.0 for ephemeral_1h and promptRate * 1.25
\* otherwise; prompt 1000, completion 400, cacheRead 200, cost 0.001745 $
\* gives 100, and prompt 500, completion 200, cost 0.00102 $ at 1h gives 60.
C20_InferredWritesFormula ==
    /\ (Computed /\ Result.estimation.source = "inferred") =>
           Result.usage.cache_creation_input_tokens =
               InferredWrites(LegTokens(UsageIn.prompt_tokens),
                              LegTokens(UsageIn.completion_tokens),
                              LegTokens(UsageIn.cached_tokens),
                              UsageIn.cost[1],
                              RatesUsed.prompt[1], RatesUsed.completion[1],
                              billIn.ttlMode)
    /\ billPhase = "called" =>
           /\ ExampleWrites(1000, 400, 200, 34900, "ephemeral_5m").usage
                  .cache_creation_input_tokens = 100
           /\ ExampleWrites(1000, 400, 200, 34900, "ephemeral_5m").costs.write = 2500
           /\ ExampleWrites(500, 200, 0, 20400, "ephemeral_1h").usage
                  .cache_creation_input_tokens = 60

C20_Witness ==
    /\ Computed
    /\ Result.estimation.source = "inferred"
    /\ billIn.ttlMode = "ephemeral_1h"
    /\ UsageIn.prompt_tokens = Num(2)
    /\ UsageIn.cached_tokens = Num(1)
    /\ UsageIn.cost = Num(60)
    /\ Result.usage.cache_creation_input_tokens = 1

\* input, output and cache-read cost of a usage object at the given rates,
\* in fortieths of a money unit (the read rate is a tenth of the prompt rate)
KnownCost(prompt, completion, cacheRead, promptRate, completionRate) ==
    LET input == IF prompt > cacheRead THEN prompt - cacheRead ELSE 0
    IN  40 * (input * promptRate + completion * completionRate)
        + 4 * cacheRead * promptRate

\* the reported cost of the usage object is below its known cost
CostBelowKnown ==
    /\ UsageIn.cost # Undefined
    /\ 40 * UsageIn.cost[1] <
           KnownCost(LegTokens(UsageIn.prompt_tokens),
                     LegTokens(UsageIn.completion_tokens),
                     LegTokens(UsageIn.cached_tokens),
                     RatesUsed.prompt[1], RatesUsed.completion[1])

\* C21: in the inferred path, a reported cost lower than the known input,
\* output and cache-read cost gives cache_creation_input_tokens 0, write
\* cost 0 and the note negative_residual_clamped; prompt 100, completion 50
\* and cost 0.00019 $ (known cost 0.0002 $) is such a case.
C21_NegativeResidualClamped ==
    /\ (Computed /\ Result.estimation.source = "inferred" /\ CostBelowKnown) =>
           /\ Result.usage.cache_creation_input_tokens = 0
           /\ Result.costs.write = 0
           /\ \E i \in DOMAIN Result.estimation.notes :
                  Result.estimation.notes[i] = "negative_residual_clamped"
    /\ billPhase = "called" =>
           LET example == ExampleWrites(100, 50, 0, 3800, "ephemeral_5m")
           IN  /\ example.estimation.source = "inferred"
               /\ example.usage.cache_creation_input_tokens = 0
               /\ example.costs.write = 0
               /\ example.estimation.notes = <<"negative_residual_clamped">>

C21_Witness ==
    /\ Computed
    /\ Result.estimation.source = "inferred"
    /\ CostBelowKnown
    /\ UsageIn.prompt_tokens = Num(2)
    /\ UsageIn.completion_tokens = Num(1)
    /\ UsageIn.cost = Num(30)
    /\ Result.debug.residual_before_clamp = Num(-50)
    /\ Result.usage.cache_creation_input_tokens = 0

\* the names of the frames of a body that decode, in the order of the body
RECURSIVE DecodedNames(_)
DecodedNames(bytes) ==
    IF Len(bytes) < 4 THEN <<>>
    ELSE IF bytes[1] = "data: " /\ IsJson(SubSeq(bytes, 2, 4))
         THEN <<bytes[3]>> \o DecodedNames(SubSeq(bytes, 5, Len(bytes)))
         ELSE DecodedNames(Tail(bytes))

\* the usage objects of the decoded frames, in the order of the body
UsagesOf(bytes) ==
    LET names == SelectSeq(DecodedNames(bytes), LAMBDA n : Parsed(n).usage # Null)
    IN  [i \in 1..Len(names) |-> Parsed(names[i]).usage[1]]

\* the total holds the value of the field, when the frame has the field
Holds(total, field) == field # Undefined => total = Val(field)

\* C22: when several decoded frames carry a usage object, the values fed to
\* the usage computation at the end of the stream are those of the last such
\* frame for every field it has (prompt_tokens, completion_tokens,
\* reasoning_tokens, cached_tokens, cost), a 0 after a non-zero value included.
C22_LastUsageFrameWins ==
    (strPhase = "closed" /\ Len(UsagesOf(upstream)) >= 2) =>
        LET last == Last(UsagesOf(upstream))
        IN  /\ Holds(stream.totalInputTokens, last.prompt_tokens)
            /\ Holds(stream.totalOutputTokens, last.completion_tokens)
            /\ Holds(stream.totalReasoningTokens, last.reasoning_tokens)
            /\ Holds(stream.totalCacheReadTokens, last.cached_tokens)
            /\ last.cost # Undefined => stream.actualCost = last.cost

\* a data line whose payload is not a JSON text
BadLine(line) ==
    /\ line # <<>>
    /\ Head(line) = "data: "
    /\ Tail(line) # <<"[DONE]">>
    /\ ~IsJson(Tail(line))

RECURSIVE JoinLines(_)
JoinLines(lines) ==
    IF Len(lines) = 1 THEN Head(lines)
    ELSE Head(lines) \o <<"\n">> \o JoinLines(Tail(lines))

\* the body without its bad lines; the last line, emptied when it is bad,
\* keeps the position of the end of the body
WithoutBadLines(bytes) ==
    LET lines == SplitLines(bytes)
        kept == SelectSeq(Front(lines), LAMBDA line : ~BadLine(line))
    IN  JoinLines(kept \o <<IF BadLine(Last(lines)) THEN <<>> ELSE Last(lines)>>)

HasBadLine(bytes) == \E i \in DOMAIN SplitLines(bytes) : BadLine(SplitLines(bytes)[i])

\* the translator state apart from what is left in the line buffer
Translated(s) == [s EXCEPT !.buffer = <<>>]

\* C23: a data line whose payload fails to parse has no effect on the
\* translator state: once the body has ended the events written, the block
\* state and the usage snapshot are those of the same body without its bad
\* lines, and the stream ends with message_delta and message_stop.
C23_BadLineSkipped ==
    /\ strPhase = "finishing" =>
           Translated(stream) = Translated(OneChunk(WithoutBadLines(upstream)))
    /\ strPhase = "closed" =>
           /\ Len(Out) >= 2
           /\ Out[Len(Out) - 1].type = "message_delta"
           /\ Out[Len(Out)].type = "message_stop"
           /\ SubSeq(Out, 1, Len(Out) - 2) = OneChunk(WithoutBadLines(upstream)).out

\* a bad line between a reasoning frame and a text frame, both translated
C23_Witness ==
    /\ strPhase = "closed"
    /\ upstream = Frame("reasoning") \o Frame("bad") \o Frame("text")
    /\ \E i \in 1..Len(Out) : Out[i].type = "content_block_start" /\ Out[i].block = "text"

\* the positions of the content_block_start events of the output
BlockStarts == {i \in 1..Len(Out) : Out[i].type = "content_block_start"}

\* C24: each redacted_thinking content_block_start is immediately followed
\* by its content_block_stop, at an index at which no other content block of
\* the stream is started.
C24_RedactedIndexOfItsOwn ==
    \A i \in BlockStarts :
        Out[i].block = "redacted_thinking" =>
            /\ i < Len(Out)
            /\ Out[i + 1].type = "content_block_stop"
            /\ Out[i + 1].index = Out[i].index
            /\ \A j \in BlockStarts \ {i} : Out[j].index # Out[i].index

\* the events written before message_delta and message_stop
BeforeFinalEvents == SubSeq(Out, 1, Len(Out) - 2)

\* a tool_use block was open when the stream ended: the last block started
\* is a tool_use block and the only content_block_stop after its start is
\* the one that closes the last block
ToolUseOpenAtEnd ==
    LET body == BeforeFinalEvents
        starts == {i \in 1..Len(body) : body[i].type = "content_block_start"}
    IN  /\ starts # {}
        /\ LET last == CHOOSE i \in starts : \A j \in starts : j <= i
           IN  /\ body[last].block = "tool_use"
               /\ body[Len(body)].type = "content_block_stop"
               /\ \A k \in (last + 1)..(Len(body) - 1) :
                      body[k].type # "content_block_stop"

\* C25: the stop_reason of the final message_delta is tool_use exactly when
\* a tool_use block is the block open at the moment the stream ends, and
\* end_turn in every other case.
C25_StopReasonIsOpenToolUse ==
    strPhase = "closed" =>
        Out[Len(Out) - 1].stop_reason =
            IF ToolUseOpenAtEnd THEN "tool_use" ELSE "end_turn"

\* a text block, then a tool_use block left open by the end of the stream
C25_Witness ==
    /\ strPhase = "closed"
    /\ Out[Len(Out) - 1].stop_reason = "tool_use"
    /\ ToolUseOpenAtEnd
    /\ \E i \in 1..Len(Out) : Out[i].type = "content_block_start" /\ Out[i].block = "text"

\* C26: the translator reads a further upstream chunk only when the
\* downstream consumer is ready to accept output, that is when the queue of
\* the output stream is below its high water mark, so that the events held
\* unread do not grow with the length of the upstream stream.
C26_ReadsOnlyWhenConsumerReady ==
    [][upPos' > upPos => desiredSize > 0]_vars

HasNote(notes, note) == \E i \in DOMAIN notes : notes[i] = note

\* C27: for ttlMode mixed in the inferred path the write rate used is
\* promptRate * 1.25, the notes contain mixed_ttl_ambiguous, the inferred
\* cache_creation_input_tokens is still reported and usage.cache_creation is
\* null; prompt 800, completion 300, cacheRead 100, cost 0.00141 $ gives 80.
C27_MixedTtlInference ==
    /\ (Computed /\ Result.estimation.source = "inferred" /\ billIn.ttlMode = "mixed") =>
           /\ Result.debug.write_rate_used # Null
           /\ 4 * Result.debug.write_rate_used[1] = 5 * RatesUsed.prompt[1]
           /\ HasNote(Result.estimation.notes, "mixed_ttl_ambiguous")
           /\ Result.usage.cache_creation_input_tokens =
                  InferredWrites(LegTokens(UsageIn.prompt_tokens),
                                 LegTokens(UsageIn.completion_tokens),
                                 LegTokens(UsageIn.cached_tokens),
                                 UsageIn.cost[1],
                                 RatesUsed.prompt[1], RatesUsed.completion[1],
                                 "ephemeral_5m")
           /\ Result.tokens.cacheCreation = Result.usage.cache_creation_input_tokens
           /\ Result.usage.cache_creation = Null
    /\ billPhase = "called" =>
           LET example == ExampleWrites(800, 300, 100, 28200, "mixed")
           IN  /\ example.usage.cache_creation_input_tokens = 80
               /\ example.tokens.cacheCreation = 80
               /\ example.usage.cache_creation = Null
               /\ HasNote(example.estimation.notes, "mixed_ttl_ambiguous")

\* a mixed request whose residual pays for one token at the 5m tier
C27_Witness ==
    /\ Computed
    /\ Result.estimation.source = "inferred"
    /\ billIn.ttlMode = "mixed"
    /\ UsageIn.prompt_tokens = Num(2)
    /\ UsageIn.completion_tokens = Num(0)
    /\ UsageIn.cost = Num(60)
    /\ Result.usage.cache_creation_input_tokens = 1
    /\ Result.usage.cache_creation = Null

\* C28: usage.cache_creation is non-null only when the inference source is
\* upstream_detailed, and is null in the upstream_simple, inferred and
\* unavailable paths.
C28_BreakdownOnlyFromUpstream ==
    Computed =>
        (Result.usage.cache_creation # Null => Result.estimation.source = "upstream_detailed")

\* C29: whatever the upstream usage object says (a cost below the known
\* cost legs and a negative cost included), no monetary field of the billing
\* result (costs.input, output, read, write, total, residual, actual) is
\* negative.
C29_NoNegativeMoney ==
    Computed =>
        /\ Result.costs.input >= 0
        /\ Result.costs.output >= 0
        /\ Result.costs.read >= 0
        /\ Result.costs.write >= 0
        /\ Result.costs.total >= 0
        /\ Result.costs.residual >= 0
        /\ Result.costs.actual # Null => Result.costs.actual[1] >= 0

\* the write-token count computeUsageMetrics had before it lowered it to
\* prompt_tokens: the upstream's scalar, or the rounded residual over the rate
WritesBeforeClamp ==
    IF Result.estimation.source = "upstream_simple"
    THEN LegTokens(UsageIn.cache_creation_input_tokens)
    ELSE RoundDiv(Result.debug.residual_after_clamp[1], Result.debug.write_rate_used[1])

\* C30: whenever computeUsageMetrics changes a value by clamping (the
\* residual raised to 0, or the write-token count lowered to prompt_tokens,
\* in the inferred path and in the upstream_simple path alike), the notes of
\* the result contain an entry recording that clamp.
C30_EveryClampNoted ==
    Computed =>
        /\ (Result.estimation.source = "inferred" /\ CostBelowKnown) =>
               HasNote(Result.estimation.notes, "negative_residual_clamped")
        /\ (/\ Result.estimation.source \in {"inferred", "upstream_simple"}
            /\ WritesBeforeClamp > LegTokens(UsageIn.prompt_tokens)) =>
               HasNote(Result.estimation.notes, "write_tokens_clamped")

(***************************************************************************)
(* Claims about the cache breakpoint, the pricing cache, the response      *)
(* translator and the shape of the translated stream.                      *)
(***************************************************************************)
\* the positions of the text blocks of an outbound message
TextPositions(message) ==
    {j \in 1..Len(message.content.blocks) : message.content.blocks[j].type = "text"}

\* C31: for a claude model, whenever the last non-system message of the
\* outbound list contains a text block, the ephemeral cache breakpoint is on
\* the last text block of that message, also when image blocks follow it.
C31_BreakpointOnLastTextBlock ==
    (upstreamSent # <<>> /\ reqBody.claude) =>
        LET messages == upstreamSent[1]
            rest == {i \in 1..Len(messages) : messages[i].role # "system"}
        IN  rest # {} =>
                LET lastMessage == messages[CHOOSE i \in rest : \A k \in rest : k <= i]
                    texts == TextPositions(lastMessage)
                IN  texts # {} =>
                        lastMessage.content.blocks[CHOOSE j \in texts : \A k \in texts : k <= j]
                            .cache_control

\* the callers whose refresh has completed: the fetch answered and the
\* table was built
Refreshers == {p \in 1..MaxLookups : lookups[p].got # Null /\ lookups[p].got[1].ok}

\* the table a completed refresh built: the catalog's entry under the
\* Date.now() its caller read
TableOf(p) == CacheAt(lookups[p].got[1].data, lookups[p].at)

\* every table completely built so far: the one the worker started with and
\* those of the completed refreshes
CompleteTables == {CacheAt(<<PricingTest>>, 0)} \cup {TableOf(p) : p \in Refreshers}

\* the variable holds no table or one complete table, and every caller that
\* has returned got a miss or the entry of a complete table
WholeTablesOnly ==
    /\ pricingCache = Null \/ pricingCache \in CompleteTables
    /\ \A p \in 1..MaxLookups :
           lookups[p].pc = "done" =>
               \/ lookups[p].pricing = Null
               \/ \E table \in CompleteTables : lookups[p].pricing = table[1].data

\* C32: under every interleaving of refreshes and reads, the cache variable
\* holds no table or one completely built table and a read returns a miss or
\* an entry of such a table; the variable changes only where a refresh
\* completes, in one step, to the table of that refresh, so that the last
\* completed refresh determines the table.
C32_WholeTableReplaced ==
    [][/\ WholeTablesOnly'
       /\ \A p \in 1..MaxLookups :
              (lookups[p].pc = "fetching" /\ lookups'[p].pc = "done"
               /\ lookups'[p].got[1].ok) =>
                  pricingCache' = CacheAt(lookups'[p].got[1].data, lookups'[p].at)
       /\ pricingCache' # pricingCache =>
              \E p \in 1..MaxLookups :
                  lookups[p].pc = "fetching" /\ lookups'[p].pc = "done"]_vars

\* two refreshes overlapped and completed out of order, and a third caller
\* read the table of the one that completed last
C32_Witness ==
    /\ Refreshers = {1, 2}
    /\ lookups[1].at < lookups[2].at
    /\ TableOf(1) # TableOf(2)
    /\ lookups[1].got[1].data # lookups[2].got[1].data
    /\ pricingCache = TableOf(1)
    /\ lookups[3].pc = "done"
    /\ lookups[3].got = Null
    /\ lookups[3].pricing = lookups[1].got[1].data

\* a table is held and less than one hour old
TableHeld == pricingCache # Null /\ (now - pricingCache[1].timestamp) < CACHE_DURATION

\* C33: a pricing lookup at time now is answered from the held table
\* without a fetch exactly when a table exists and now minus its timestamp
\* is below one hour; otherwise the lookup performs one fetch; and once a
\* fetch has succeeded, no lookup made less than one hour after the time of
\* the lookup that fetched goes to the network again.
C33_FetchOnlyOnMissOrExpiry ==
    [][/\ \A p \in 1..MaxLookups :
              (lookups[p].pc = "idle" /\ lookups'[p].pc # "idle") =>
                  /\ lookups'[p].pc = "done" <=> TableHeld
                  /\ (\E q \in Refreshers : now - lookups[q].at < CACHE_DURATION) =>
                         lookups'[p].pc = "done"
       /\ Len(fetchLog') = Cardinality({p \in 1..MaxLookups : lookups'[p].got # Null})]_vars

\* the blocks of the given types, in the order of the content array
BlocksOfType(content, types) == SelectSeq(content, LAMBDA b : b.type \in types)

ContentRank(type) ==
    CASE type = "server_tool_use" -> 1
      [] type = "web_search_tool_result" -> 2
      [] type \in {"thinking", "redacted_thinking"} -> 3
      [] type = "text" -> 4
      [] type = "tool_use" -> 5

\* the reasoning entries that stand for a block: encrypted or redacted ones,
\* and the ones with a text
ShownEntries(message) ==
    IF message.reasoning_details # Undefined
    THEN SelectSeq(message.reasoning_details[1],
                   LAMBDA e : e.encrypted \/ e.type = "redacted" \/ e.text # Undefined)
    ELSE IF message.reasoning # "" THEN <<ReasoningEntry(FALSE, "reasoning.text", <<message.reasoning>>)>>
    ELSE <<>>

ContentInFixedOrder(message, content) ==
    LET thinking == BlocksOfType(content, {"thinking", "redacted_thinking"})
        texts == BlocksOfType(content, {"text"})
        uses == BlocksOfType(content, {"tool_use"})
        search == BlocksOfType(content, {"server_tool_use", "web_search_tool_result"})
        shown == ShownEntries(message)
        calls == IF message.tool_calls = Undefined THEN <<>> ELSE message.tool_calls[1]
    IN  /\ \A i, j \in 1..Len(content) :
               i < j => ContentRank(content[i].type) <= ContentRank(content[j].type)
        /\ Len(search) = IF message.annotations # Undefined THEN 2 ELSE 0
        /\ Len(search) = 2 => search[1].type = "server_tool_use"
                              /\ search[2].type = "web_search_tool_result"
        /\ Len(thinking) = Len(shown)
        /\ \A i \in 1..Len(shown) :
               IF shown[i].encrypted \/ shown[i].type = "redacted"
               THEN thinking[i].type = "redacted_thinking"
               ELSE thinking[i].type = "thinking" /\ thinking[i].text = shown[i].text[1]
        /\ Len(texts) = IF message.content # "" THEN 1 ELSE 0
        /\ \A i \in 1..Len(texts) : texts[i].text = message.content
        /\ Len(uses) = Len(calls)
        /\ \A i \in 1..Len(calls) :
               /\ uses[i].id = calls[i].id
               /\ calls[i].arguments # "json" => uses[i].input = "{}"
               /\ calls[i].arguments = "json" => uses[i].input = "parsed"

\* C34: the content array of a translated completion lists server_tool_use
\* and web_search_tool_result (when there are annotations), then the thinking
\* and redacted_thinking blocks in upstream order, then the text block, then
\* the tool_use blocks in upstream order; a tool call whose arguments do not
\* parse gives a tool_use block with empty input, and the translation of
\* every completion returns.
C34_ContentOrderFixed ==
    /\ reqPhase = "answered" /\ resp.completion # Null => resp.result # Null
    /\ resp.result # Null =>
           ContentInFixedOrder(resp.completion[1].message, resp.result[1].content)

C34_Witness ==
    /\ resp.result # Null
    /\ LET message == resp.completion[1].message
           content == resp.result[1].content
       IN  /\ message.annotations # Undefined
           /\ message.content # ""
           /\ message.reasoning_details # Undefined
           /\ Len(ShownEntries(message)) = 2
           /\ message.tool_calls # Undefined
           /\ \E i \in 1..Len(message.tool_calls[1]) :
                  message.tool_calls[1][i].arguments = "{bad"
           /\ Len(content) = 7
           /\ content[7].type = "tool_use"

\* the block open after the first n events of the output: <<>> when none
\* is, otherwise <<the position of its content_block_start>>
RECURSIVE OpenAfter(_)
OpenAfter(n) ==
    IF n = 0 THEN <<>>
    ELSE LET before == OpenAfter(n - 1)
         IN  IF Out[n].type = "content_block_start" THEN <<n>>
             ELSE IF Out[n].type = "content_block_stop" THEN <<>>
             ELSE before

\* the n-th event of the output respects the bracketing
Bracketed(n) ==
    LET open == OpenAfter(n - 1)
    IN  CASE Out[n].type = "content_block_start" -> open = <<>>
          [] Out[n].type = "content_block_delta" ->
                 /\ open # <<>>
                 /\ Out[n].index = Out[open[1]].index
                 /\ Out[n].kind = "input_json_delta" => Out[open[1]].block = "tool_use"
          [] Out[n].type = "content_block_stop" ->
                 /\ open # <<>>
                 /\ Out[n].index = Out[open[1]].index
          [] Out[n].type = "message_delta" -> open = <<>>
          [] OTHER -> TRUE

\* C35: in the output of the streaming translator the content_block events
\* are well bracketed: a block is started only when none is open, every
\* content_block_delta and content_block_stop carries the index of the open
\* block (input_json_delta only under a tool_use block), and no block is
\* open when message_delta is written.
C35_BlocksWellBracketed == \A n \in 1..Len(Out) : Bracketed(n)

OpenFlags ==
    {f \in {"TEXT", "THINKING", "TOOL_USE"} :
        \/ f = "TEXT" /\ stream.hasStartedTextBlock
        \/ f = "THINKING" /\ stream.hasStartedThinkingBlock
        \/ f = "TOOL_USE" /\ stream.isToolUse}

\* C36: in every reachable state of the streaming translator at most one of
\* hasStartedTextBlock, hasStartedThinkingBlock and isToolUse is true.
C36_AtMostOneOpenFlag == Cardinality(OpenFlags) <= 1

\* a text block opened over a closed tool_use block after a thinking block
C36_Witness ==
    /\ OpenFlags = {"TEXT"}
    /\ \E i, j \in BlockStarts :
           i < j /\ Out[i].block = "thinking" /\ Out[j].block = "tool_use"

\* the content texts of the deltas decoded so far, in order
ContentsDecoded ==
    LET names == DecodedNames(SubSeq(upstream, 1, upPos))
        deltas == [i \in 1..Len(names) |-> Parsed(names[i]).delta]
        carrying == SelectSeq(deltas, LAMBDA d : d # Null /\ d[1].content # "")
    IN  [i \in 1..Len(carrying) |-> carrying[i][1].content]

\* the texts of the text_delta events written under a text block
TextsWritten ==
    LET at == SelectSeq([n \in 1..Len(Out) |-> n],
                        LAMBDA n : /\ Out[n].type = "content_block_delta"
                                   /\ Out[n].kind = "text_delta"
                                   /\ OpenAfter(n - 1) # <<>>
                                   /\ Out[OpenAfter(n - 1)[1]].block = "text")
    IN  [i \in 1..Len(at) |-> Out[at[i]].text]

\* C37: every decoded delta that carries non-empty content text causes a
\* text_delta event carrying that text to be written, whatever else the
\* delta carries: the texts written are the contents decoded, in order.
C37_ContentAlwaysWritten ==
    stream.buffer = <<>> /\ ~stream.cancelled => TextsWritten = ContentsDecoded

\* the uids that the flattening gives to the messages of the inbound message j
UidsOf(j) ==
    LET before == Len(FlattenMessages(SubSeq(reqBody.messages, 1, j - 1)))
    IN  (before + 1)..(before + Len(FlattenMessage(reqBody.messages[j])))

HasBlock(m, block) == m.isArray /\ \E p \in 1..Len(m.blocks) : m.blocks[p] = block

\* position k of the outbound list holds a tool message for call t that came
\* from the inbound message j and sits in the run of tool messages directly
\* after an assistant message that carries call t
SurvivesPaired(j, t, k) ==
    /\ reqOut[k].role = "tool"
    /\ reqOut[k].tool_call_id = t
    /\ reqOut[k].uid \in UidsOf(j)
    /\ ScanBack(reqOut, k - 1, t)

\* C38: a tool_result of a user message whose tool_use_id matches a tool_use
\* of the directly preceding assistant message comes out as a tool message
\* paired with that call, whatever else the user message contains.
C38_MatchedResultSurvives ==
    reqPhase = "done" =>
        \A j \in 2..Len(reqBody.messages) : \A t \in ToolIds :
            /\ reqBody.messages[j - 1].role = "assistant"
            /\ HasBlock(reqBody.messages[j - 1], ToolUseBlock(t))
            /\ reqBody.messages[j].role = "user"
            /\ HasBlock(reqBody.messages[j], ToolResultBlock(t))
            => \E k \in 1..Len(reqOut) : SurvivesPaired(j, t, k)

\* C39: validateOpenAIToolCalls is idempotent: applied to its own output it
\* returns that output unchanged.
C39_ValidationIdempotent ==
    reqPhase = "done" => validateOpenAIToolCalls(reqOut) = reqOut

\* a list from which the validation removed a call and a tool message and
\* kept a matched pair
C39_Witness ==
    /\ reqPhase = "done"
    /\ Len(reqFlat) = 4
    /\ Len(reqOut) = 3
    /\ \E i \in 1..3 : /\ reqOut[i].role = "assistant"
                       /\ Len(reqOut[i].tool_calls) = 1
                       /\ Len(reqFlat[reqOut[i].uid].tool_calls) = 2
    /\ \E i \in 1..3 : reqOut[i].role = "tool"

FinalEventsWritten ==
    \E n \in 1..Len(Out) : Out[n].type \in {"message_delta", "message_stop"}

\* C40: for every upstream body that ends, the translated stream eventually
\* has message_stop as its last event and is closed, and the lock of the
\* upstream reader is released before message_delta and message_stop are
\* written.
C40_StreamEndsAndLockReleased ==
    /\ <>(strPhase = "closed" /\ Out[Len(Out)].type = "message_stop")
    /\ [](FinalEventsWritten => ~readerLocked)

\* a closed stream of a body read in several chunks, lock released
C40_Witness ==
    /\ strPhase = "closed"
    /\ ~readerLocked
    /\ Len(DecodedNames(upstream)) = MaxFrames
    /\ Out[Len(Out)].type = "message_stop"
    /\ \E n \in 1..Len(Out) : Out[n].type = "content_block_start"

====
